---- MODULE Spec2Model ----
(***************************************************************************)
(* Actionable Tabs: the background scheduling engine (src/src/background.js *)
(* with the flat defaults of src/unnamed/part_004), the versioned rule      *)
(* store (src/src/storage.ts) and the rules settings page                   *)
(* (src/unnamed/part_002), as one state machine over one                    *)
(* browser.storage.sync area.                                               *)
(*                                                                         *)
(* Encoding of JavaScript values.  A storage key is absent (<<>>) or holds  *)
(* one value (<<v>>).  A lastMoveTime of null is the number 0: every read   *)
(* of it in the code is a truthiness test, and Date.now() is never 0.       *)
(* Instants are milliseconds counted from an hour boundary.                 *)
(***************************************************************************)
EXTENDS Integers, Sequences, FiniteSets, TLC

\* ------------------------------------------------------------------ bounds
MaxMinutes == 2          \* the clock stops after this many minutes
MaxFailures == 1         \* rejected host calls (storage, tabs) per behaviour
MaxStartups == 1         \* browser session starts per behaviour
MaxEdits == 1            \* cronSchedule edits by the user per behaviour
MaxRules == 3            \* rules the user lets the list grow to
MaxOps == 2              \* user operations on the settings page per behaviour
MaxSpan == 6             \* half minutes a counted interval spans
MaxTabs == 3             \* unpinned tabs of a strip a pass runs over
MaxMoveCount == 3        \* largest moveCount of a pass

\* ------------------------------------------------------- program constants
MS_PER_MINUTE == 60000
DEFAULT_DELAY_MINUTES == 30
MAX_MISSED_ITERATIONS == 10000

TickMs == MS_PER_MINUTE \div 2
MaxTime == MaxMinutes * MS_PER_MINUTE
StartTime == MS_PER_MINUTE

None == <<>>
Some(v) == <<v>>
IsSome(o) == o # <<>>
Get(o) == o[1]
NoTime == 0              \* JavaScript null in a lastMoveTime
NoNumber == 0 - 1        \* a local that has no value (yet)

Max(a, b) == IF a >= b THEN a ELSE b
Min(a, b) == IF a <= b THEN a ELSE b
\* Math.ceil(a / b) for b > 0 (\div rounds towards minus infinity)
CeilDiv(a, b) == 0 - ((0 - a) \div b)

VARIABLES
    now,        \* the wall clock, Date.now()
    store,      \* browser.storage.sync: key -> None | Some(value)
    alarms,     \* browser.alarms: the armed alarms
    tabs,       \* the window's tab strip, left to right
    bg,         \* the background listeners' runs: handler -> locals
    failures,   \* host calls rejected so far
    startups,   \* session starts so far
    installed,  \* whether runtime.onInstalled has been delivered
    edits,      \* cronSchedule edits so far
    cronLibBlank, \* what cron-parser does with a whitespace-only expression
    ld,         \* the getSettings() calls: caller -> locals
    page,       \* the rules settings page
    calc,       \* one call of calculateMissedMoves, iteration by iteration
    ex,         \* one pass over the tab strip, automatic or manual
    orch,       \* one firing pass over the rule list, rule by rule
    unit        \* one call of a helper or of a form control's listener

vars == <<now, store, alarms, tabs, bg, failures, startups, installed, edits,
          cronLibBlank, orch, unit, ld, page, calc, ex>>

\* what the background script never touches, and what the settings page never does
pageVars == <<ld, page, calc, ex>>
engineVars == <<now, alarms, tabs, bg, startups, installed, edits, cronLibBlank, orch, unit, calc, ex>>

\* ------------------------------------------------------------ cron-parser
CRON_1 == "*/1 * * * *"
CRON_2 == "*/2 * * * *"
CRON_30 == "*/30 * * * *"
CRON_BLANK == "   "
CRON_BAD == "every now and then"

\* Minutes between two occurrences of a step expression; 0 for any other text.
CronPeriod(expr) ==
    CASE expr = CRON_1 -> 1
      [] expr = CRON_2 -> 2
      [] expr = CRON_30 -> 30
      [] expr = CRON_BLANK /\ cronLibBlank = "everyMinute" -> 1
      [] OTHER -> 0

\* CronExpressionParser.parse(expr, {strict: false}) throws
CronThrows(expr) == CronPeriod(expr) = 0

\* an iterator that steps one period on from t, whatever the wall clock says
NextOccurrenceUnaligned(expr, t) ==
    t + CronPeriod(expr) * MS_PER_MINUTE

\* interval.next(): the earliest occurrence strictly after instant t
NextOccurrence(expr, t) ==
    LET p == CronPeriod(expr) * MS_PER_MINUTE
    IN  ((t \div p) + 1) * p

\* !s || !s.trim()
IsBlank(expr) == expr \in {"", CRON_BLANK}

\* ----------------------------------------------------- background.js: cron
\* parseCronToNextDelay with Math.floor where the code has Math.ceil
ParseCronToNextDelayFloor(cronSchedule, t1, t2) ==
    IF CronThrows(cronSchedule)
    THEN DEFAULT_DELAY_MINUTES
    ELSE Max(1, (NextOccurrence(cronSchedule, t1) - t2) \div MS_PER_MINUTE)

\* parseCronToNextDelay(cronSchedule); t1 is the `currentDate` handed to the
\* parser and t2 the second `new Date()` the gap is measured from
ParseCronToNextDelay(cronSchedule, t1, t2) ==
    IF CronThrows(cronSchedule)
    THEN DEFAULT_DELAY_MINUTES
    ELSE LET delayMs == NextOccurrence(cronSchedule, t1) - t2
             delayMinutes == CeilDiv(delayMs, MS_PER_MINUTE)
         IN  Max(1, delayMinutes)

\* the loop iteration with `>=` where the code has `>`
MissedStepInclusive(cronSchedule, cur, nowT, missedCount) ==
    LET nextDate == NextOccurrence(cronSchedule, cur)
    IN  IF nextDate >= nowT
        THEN [brk |-> TRUE, cur |-> nextDate, missedCount |-> missedCount]
        ELSE [brk |-> missedCount + 1 > MAX_MISSED_ITERATIONS,
              cur |-> nextDate, missedCount |-> missedCount + 1]

\* one iteration of the while (true) loop of calculateMissedMoves: whether it
\* breaks, the occurrence the iterator stands on and missedCount afterwards
MissedStep(cronSchedule, cur, nowT, missedCount) ==
    LET nextDate == NextOccurrence(cronSchedule, cur)
    IN  IF nextDate > nowT
        THEN [brk |-> TRUE, cur |-> nextDate, missedCount |-> missedCount]
        ELSE [brk |-> missedCount + 1 > MAX_MISSED_ITERATIONS,
              cur |-> nextDate, missedCount |-> missedCount + 1]

\* the while (true) loop of calculateMissedMoves
RECURSIVE MissedLoop(_, _, _, _)
MissedLoop(cronSchedule, cur, nowT, missedCount) ==
    LET s == MissedStep(cronSchedule, cur, nowT, missedCount)
    IN  IF s.brk THEN s.missedCount
        ELSE MissedLoop(cronSchedule, s.cur, nowT, s.missedCount)

\* calculateMissedMoves whose catch block reports one missed occurrence
CalculateMissedMovesCatchOne(cronSchedule, lastMoveTime, nowT) ==
    IF CronThrows(cronSchedule)
    THEN 1
    ELSE MissedLoop(cronSchedule, lastMoveTime, nowT, 0)

\* calculateMissedMoves(cronSchedule, lastMoveTime), evaluated at instant nowT
CalculateMissedMoves(cronSchedule, lastMoveTime, nowT) ==
    IF CronThrows(cronSchedule)
    THEN 0
    ELSE MissedLoop(cronSchedule, lastMoveTime, nowT, 0)

\* ------------------------------------------------------ browser.storage.sync
Keys == {"version", "rules", "cronSchedule", "queueMode", "lastMoveTime",
         "moveCount", "moveDirection", "showNotifications"}

EmptyStore == [k \in Keys |-> None]

\* DEFAULTS of defaults.js, the flat settings background.js reads
DEFAULTS ==
    [cronSchedule |-> CRON_30, queueMode |-> "leftmost-first",
     lastMoveTime |-> NoTime, moveCount |-> 1, showNotifications |-> TRUE]

\* storage.sync.get(defaults): every key of defaults, stored value or default
StorageGet(st, defaults) ==
    [k \in DOMAIN defaults |-> IF IsSome(st[k]) THEN Get(st[k]) ELSE defaults[k]]

\* storage.sync.set(items)
StorageSet(st, items) ==
    [k \in Keys |-> IF k \in DOMAIN items THEN Some(items[k]) ELSE st[k]]

\* storage.sync.remove(keys)
StorageRemove(st, keys) ==
    [k \in Keys |-> IF k \in keys THEN None ELSE st[k]]

\* settings.cronSchedule || DEFAULTS.cronSchedule
EffectiveCron(settings) ==
    IF settings.cronSchedule = "" THEN DEFAULTS.cronSchedule ELSE settings.cronSchedule

\* --------------------------------------------------- storage.ts: the rules
LegacyKeys == {"cronSchedule", "queueMode", "lastMoveTime", "moveCount",
               "moveDirection", "showNotifications"}

Rule(id, cronSchedule, queueMode, lastMoveTime, moveCount, moveDirection, showNotifications) ==
    [id |-> id, cronSchedule |-> cronSchedule, queueMode |-> queueMode,
     lastMoveTime |-> lastMoveTime, moveCount |-> moveCount,
     moveDirection |-> moveDirection, showNotifications |-> showNotifications]

\* DEFAULTS.rules[0] of storage.ts
DefaultRule == Rule("default-rule-001", CRON_30, "leftmost", NoTime, 1, "left", TRUE)

\* DEFAULTS of storage.ts
RULE_DEFAULTS == [version |-> 1, rules |-> <<DefaultRule>>]

\* migrateQueueMode(queueMode); "" is undefined
MigrateQueueMode(queueMode) ==
    CASE queueMode = "leftmost-first" -> "leftmost"
      [] queueMode = "rightmost-first" -> "rightmost"
      [] queueMode = "oldest-first" -> "oldest"
      [] queueMode = "newest-first" -> "newest"
      [] queueMode \in {"oldest", "newest", "leftmost", "rightmost"} -> queueMode
      [] OTHER -> ""

\* the callback of settings.rules.map in getSettings
MigrateRule(rule) ==
    LET migratedQueueMode == MigrateQueueMode(rule.queueMode)
    IN  IF migratedQueueMode # "" /\ migratedQueueMode # rule.queueMode
        THEN [rule EXCEPT !.queueMode = migratedQueueMode]
        ELSE rule

MigratedRules(rules) == [i \in DOMAIN rules |-> MigrateRule(rules[i])]

\* needsRuleMigration that is set whenever a queue mode is recognised
NeedsRuleMigrationAlways(rules) ==
    \E i \in DOMAIN rules : MigrateQueueMode(rules[i].queueMode) # ""

\* needsRuleMigration after the map
NeedsRuleMigration(rules) ==
    \E i \in DOMAIN rules :
        /\ MigrateQueueMode(rules[i].queueMode) # ""
        /\ MigrateQueueMode(rules[i].queueMode) # rules[i].queueMode

\* needsMigration: one of the legacy keys is stored
NeedsMigration(st) == \E k \in LegacyKeys : IsSome(st[k])

\* a migratedRule whose showNotifications is taken with || like the others
MigratedRuleOr(st) ==
    Rule("legacy",
         IF IsSome(st.cronSchedule) /\ Get(st.cronSchedule) # ""
         THEN Get(st.cronSchedule) ELSE DefaultRule.cronSchedule,
         IF IsSome(st.queueMode) /\ MigrateQueueMode(Get(st.queueMode)) # ""
         THEN MigrateQueueMode(Get(st.queueMode)) ELSE DefaultRule.queueMode,
         IF IsSome(st.lastMoveTime) THEN Get(st.lastMoveTime) ELSE NoTime,
         IF IsSome(st.moveCount) /\ Get(st.moveCount) # 0
         THEN Get(st.moveCount) ELSE DefaultRule.moveCount,
         IF IsSome(st.moveDirection) /\ Get(st.moveDirection) # ""
         THEN Get(st.moveDirection) ELSE DefaultRule.moveDirection,
         IF IsSome(st.showNotifications) /\ Get(st.showNotifications)
         THEN Get(st.showNotifications) ELSE DefaultRule.showNotifications)

\* migratedRule: the rule made of the legacy settings; a || b takes b when a
\* is undefined, "", 0 or null
MigratedRule(st) ==
    Rule("legacy",
         IF IsSome(st.cronSchedule) /\ Get(st.cronSchedule) # ""
         THEN Get(st.cronSchedule) ELSE DefaultRule.cronSchedule,
         IF IsSome(st.queueMode) /\ MigrateQueueMode(Get(st.queueMode)) # ""
         THEN MigrateQueueMode(Get(st.queueMode)) ELSE DefaultRule.queueMode,
         IF IsSome(st.lastMoveTime) THEN Get(st.lastMoveTime) ELSE NoTime,
         IF IsSome(st.moveCount) /\ Get(st.moveCount) # 0
         THEN Get(st.moveCount) ELSE DefaultRule.moveCount,
         IF IsSome(st.moveDirection) /\ Get(st.moveDirection) # ""
         THEN Get(st.moveDirection) ELSE DefaultRule.moveDirection,
         IF IsSome(st.showNotifications)
         THEN Get(st.showNotifications) ELSE DefaultRule.showNotifications)

\* a getSettings() call: where it is, the settings it is about to write,
\* what it returned, how many set/remove calls it made, the store it started on
Loaders == {"first", "second", "page", "changed"}

GRun(pc) == [pc |-> pc, settings |-> None, result |-> None, writes |-> 0,
             before |-> None]

\* no call of calculateMissedMoves under way
NoCalc == [pc |-> "idle", cronSchedule |-> "", lastMoveTime |-> NoTime, nowT |-> NoTime,
           cur |-> NoTime, missedCount |-> 0, result |-> NoNumber]

\* no pass under way
NoExec == [pc |-> "idle", kind |-> "", queueMode |-> "", moveCount |-> 0,
           moveDirection |-> "", showNotifications |-> TRUE, actionableTabsData |-> <<>>,
           tabsToMove |-> <<>>, targetIndex |-> 0, i |-> 0, moveResults |-> <<>>,
           notifs |-> 0, before |-> <<>>, pass |-> 0, first |-> <<>>]

\* no firing pass over the rule list under way
NoOrch == [pc |-> "idle", trigger |-> "", rules |-> <<>>, i |-> 0, executed |-> <<>>,
           outcomes |-> <<>>]

\* no helper call under way
NoUnit == [pc |-> "idle", op |-> "", arg |-> <<>>, result |-> None, calls |-> 0,
           before |-> None]

\* the settings page before its script has run
\* reset: the last thing the user did on the page was a RESET whose write resolved
ClosedPage ==
    [loaded |-> FALSE, rules |-> <<>>, pendingChanges |-> None,
     debounceTimeout |-> FALSE, set |-> "none", saveStatus |-> "idle",
     changes |-> 0, ops |-> 0, added |-> 0, rejected |-> 0, events |-> <<>>,
     reset |-> FALSE]

\* ------------------------------------------------------------ browser.alarms
ALARM_NAME == "moveActionableTabs"

\* alarms.clear(name)
AlarmsClear(al, name) == {a \in al : a.name # name}

\* an armed alarm; `for` is what it was armed for: the stored cronSchedule
\* (raw) and the cron occurrence the delay was computed for (occ, NoNumber
\* when the delay is the fallback)
Alarm(name, delayInMinutes, for, t) ==
    [name |-> name, scheduledTime |-> t + delayInMinutes * MS_PER_MINUTE,
     delayInMinutes |-> delayInMinutes, raw |-> for.raw, occ |-> for.occ]

\* alarms.create(name, {delayInMinutes}) at instant t: replaces an alarm of
\* the same name
AlarmsCreate(al, name, delayInMinutes, for, t) ==
    AlarmsClear(al, name) \cup {Alarm(name, delayInMinutes, for, t)}

\* an alarms.create that leaves an armed alarm of the same name in place
ScheduleCreateNoReplace(al, delayInMinutes, for, t) ==
    al \cup {Alarm("moveActionableTabs", delayInMinutes, for, t)}

\* the alarms.create call of scheduleNextMove
ScheduleCreate(al, delayInMinutes, for, t) ==
    AlarmsCreate(al, ALARM_NAME, delayInMinutes, for, t)

\* the alarms.clear call of scheduleNextMove
ScheduleClear(al) == AlarmsClear(al, ALARM_NAME)

\* -------------------------------------------------------------- browser.tabs
\* a tab: [id, pinned, markedAt]; markedAt = 0 when the tab carries no
\* 'actionable' session value.  tab.index is its position minus one.
Range(s) == {s[i] : i \in DOMAIN s}

PinnedCount(tb) == Cardinality({i \in DOMAIN tb : tb[i].pinned})

\* the loop of getActionableTabsSorted before the sort
RECURSIVE ActionableFrom(_, _)
ActionableFrom(tb, i) ==
    IF i > Len(tb) THEN <<>>
    ELSE IF tb[i].markedAt # 0
         THEN <<[tabId |-> tb[i].id, markedAt |-> tb[i].markedAt, index |-> i - 1]>>
              \o ActionableFrom(tb, i + 1)
         ELSE ActionableFrom(tb, i + 1)

\* the comparators of the switch in getActionableTabsSorted
Compare(queueMode, a, b) ==
    CASE queueMode = "oldest-first" -> a.markedAt - b.markedAt
      [] queueMode = "newest-first" -> b.markedAt - a.markedAt
      [] queueMode = "leftmost-first" -> a.index - b.index
      [] queueMode = "rightmost-first" -> b.index - a.index
      [] OTHER -> 0

\* Array.prototype.sort: a stable sort
RECURSIVE InsertSorted(_, _, _)
InsertSorted(queueMode, s, x) ==
    IF s = <<>> THEN <<x>>
    ELSE IF Compare(queueMode, x, s[Len(s)]) < 0
         THEN InsertSorted(queueMode, SubSeq(s, 1, Len(s) - 1), x) \o <<s[Len(s)]>>
         ELSE s \o <<x>>

RECURSIVE SortPrefix(_, _, _)
SortPrefix(queueMode, s, n) ==
    IF n = 0 THEN <<>>
    ELSE InsertSorted(queueMode, SortPrefix(queueMode, s, n - 1), s[n])

\* getActionableTabsSorted(queueMode)
GetActionableTabsSorted(tb, queueMode) ==
    LET found == ActionableFrom(tb, 1)
    IN  SortPrefix(queueMode, found, Len(found))

\* getTargetIndexForActionableTabs()
GetTargetIndex(tb) == PinnedCount(tb)

\* actionableTabsData.slice(0, moveCount)
Slice(s, n) == SubSeq(s, 1, Min(n, Len(s)))

IndexOf(tb, id) == CHOOSE i \in DOMAIN tb : tb[i].id = id

\* tabs.move(tabId, {index}): the strip afterwards.  The host keeps pinned tabs
\* left of unpinned ones and an index past the end means the end.
TabsMove(tb, id, index) ==
    LET from == IndexOf(tb, id)
        t == tb[from]
        rest == SubSeq(tb, 1, from - 1) \o SubSeq(tb, from + 1, Len(tb))
        lo == IF t.pinned THEN 0 ELSE PinnedCount(rest)
        hi == IF t.pinned THEN PinnedCount(rest) ELSE Len(rest)
        at == Max(lo, Min(hi, index))
    IN  SubSeq(rest, 1, at) \o <<t>> \o SubSeq(rest, at + 1, Len(rest))

\* ------------------------------------------------- the background listeners
Handlers == {"installed", "startup", "changed", "alarm"}

NewRun == [passes |-> 0, empty |-> FALSE, moves |-> 0, notifs |-> 0, writes |-> 0]

\* a listener that is not running; run keeps what its last run did
Locals(pc, ret) ==
    [pc |-> pc, ret |-> ret, raw |-> None, cron |-> "", occ |-> NoNumber,
     at |-> NoNumber, delay |-> NoNumber, missed |-> NoNumber, snap |-> None,
     queueMode |-> "", moveCount |-> 0, showNotifications |-> TRUE,
     batch |-> <<>>, i |-> 0, targetIndex |-> 0, anyTabMoved |-> FALSE,
     run |-> NewRun]

\* a listener's run is over: what is left of it is what it did
Finished(l, pc) == [Locals(pc, "") EXCEPT !.missed = l.missed, !.run = l.run]

Running(h) == bg[h].pc \notin {"idle", "done", "failed"}

CanFail == failures < MaxFailures

\* an awaited host call rejects inside a listener with no try/catch around it:
\* the listener's promise rejects and nothing after the await runs
Reject(h) ==
    /\ CanFail
    /\ failures' = failures + 1
    /\ bg' = [bg EXCEPT ![h] = Finished(bg[h], "failed")]

\* the tab strips a behaviour may start from (tab 1 is the leftmost)
Tab(id, pinned, markedAt) == [id |-> id, pinned |-> pinned, markedAt |-> markedAt]

TabInits ==
    { <<Tab(1, TRUE, 0), Tab(2, FALSE, 0), Tab(3, FALSE, 0)>>,
      <<Tab(1, TRUE, 0), Tab(2, FALSE, TickMs), Tab(3, FALSE, 0)>>,
      <<Tab(1, FALSE, 0), Tab(2, FALSE, 2 * TickMs), Tab(3, FALSE, TickMs)>> }

\* what the flat settings may hold when a behaviour starts
StoreInits ==
    { EmptyStore,
      [EmptyStore EXCEPT !.cronSchedule = Some(CRON_1), !.lastMoveTime = Some(TickMs),
                         !.moveCount = Some(2)],
      [EmptyStore EXCEPT !.cronSchedule = Some(CRON_1), !.lastMoveTime = Some(NoTime),
                         !.showNotifications = Some(FALSE)],
      [EmptyStore EXCEPT !.cronSchedule = Some(CRON_BAD), !.lastMoveTime = Some(TickMs)] }

Init ==
    /\ now = StartTime
    /\ store \in StoreInits
    /\ alarms = {}
    /\ tabs \in TabInits
    /\ bg = [h \in Handlers |-> Locals("idle", "")]
    /\ failures = 0
    /\ startups = 0
    /\ installed = FALSE
    /\ edits = 0
    /\ cronLibBlank \in {"throws", "everyMinute"}
    /\ orch = NoOrch
    /\ unit = NoUnit
    /\ ld = [c \in Loaders |-> GRun("idle")]
    /\ page = ClosedPage
    /\ calc = NoCalc
    /\ ex = NoExec

\* ---- time passes
Tick ==
    /\ now < MaxTime
    /\ now' = now + TickMs
    /\ UNCHANGED <<store, alarms, tabs, bg, failures, startups, installed, edits, cronLibBlank, orch, unit, pageVars>>

\* ---- runtime.onInstalled: initializeDefaultSettings, then scheduleNextMove
OnInstalled ==
    /\ ~installed
    /\ \A h \in Handlers : ~Running(h)
    /\ installed' = TRUE
    /\ bg' = [bg EXCEPT !["installed"] = Locals("init_get", "")]
    /\ UNCHANGED <<now, store, alarms, tabs, failures, startups, edits, cronLibBlank, orch, unit, pageVars>>

\* const settings = await browser.storage.sync.get(DEFAULTS)
InitGet ==
    /\ bg["installed"].pc = "init_get"
    /\ \/ /\ bg' = [bg EXCEPT !["installed"].snap = Some(StorageGet(store, DEFAULTS)),
                              !["installed"].pc = "init_set"]
          /\ UNCHANGED failures
       \/ Reject("installed")
    /\ UNCHANGED <<now, store, alarms, tabs, startups, installed, edits, cronLibBlank, orch, unit, pageVars>>

\* await browser.storage.sync.set(settings); a cronSchedule that was absent
\* is a change, which storage.onChanged delivers to its listener
InitSet ==
    /\ bg["installed"].pc = "init_set"
    /\ \/ /\ store' = StorageSet(store, Get(bg["installed"].snap))
          /\ IF Some(Get(bg["installed"].snap).cronSchedule) # store.cronSchedule
             THEN /\ ~Running("changed")
                  /\ bg' = [bg EXCEPT !["installed"].pc = "s_get",
                                      !["installed"].snap = None,
                                      !["changed"] = Locals("s_get", "")]
             ELSE bg' = [bg EXCEPT !["installed"].pc = "s_get",
                                   !["installed"].snap = None]
          /\ UNCHANGED failures
       \/ /\ Reject("installed")
          /\ UNCHANGED store
    /\ UNCHANGED <<now, alarms, tabs, startups, installed, edits, cronLibBlank, orch, unit, pageVars>>

\* ---- scheduleNextMove
\* settings = await storage.sync.get(DEFAULTS); delayMinutes =
\* parseCronToNextDelay(cronSchedule), whose two `new Date()` may differ
ScheduleGet(h) ==
    /\ bg[h].pc = "s_get"
    /\ \/ \E t2 \in {now, now + TickMs} :
            LET settings == StorageGet(store, DEFAULTS)
                cronSchedule == EffectiveCron(settings)
            IN  /\ t2 <= MaxTime
                /\ now' = t2
                /\ bg' = [bg EXCEPT
                       ![h].pc = "s_clear",
                       ![h].raw = store.cronSchedule,
                       ![h].cron = cronSchedule,
                       ![h].at = t2,
                       ![h].occ = IF CronThrows(cronSchedule) THEN NoNumber
                                  ELSE NextOccurrence(cronSchedule, now),
                       ![h].delay = ParseCronToNextDelay(cronSchedule, now, t2)]
                /\ UNCHANGED failures
       \/ /\ Reject(h)
          /\ UNCHANGED now
    /\ UNCHANGED <<store, alarms, tabs, startups, installed, edits, cronLibBlank, orch, unit, pageVars>>

\* await browser.alarms.clear('moveActionableTabs')
ScheduleClearStep(h) ==
    /\ bg[h].pc = "s_clear"
    /\ alarms' = ScheduleClear(alarms)
    /\ bg' = [bg EXCEPT ![h].pc = "s_create"]
    /\ UNCHANGED <<now, store, tabs, failures, startups, installed, edits, cronLibBlank, orch, unit, pageVars>>

\* await browser.alarms.create('moveActionableTabs', {delayInMinutes})
ScheduleCreateStep(h) ==
    /\ bg[h].pc = "s_create"
    /\ alarms' = ScheduleCreate(alarms, bg[h].delay,
                                [raw |-> bg[h].raw, occ |-> bg[h].occ], now)
    /\ bg' = [bg EXCEPT ![h] = Finished(bg[h], "done")]
    /\ UNCHANGED <<now, store, tabs, failures, startups, installed, edits, cronLibBlank, orch, unit, pageVars>>

\* ---- moveActionableTabsToTop(isManual = false), one automatic pass
\* the listener's locals when it calls moveActionableTabsToTop()
EnterPass(l, ret) ==
    [l EXCEPT !.pc = "p_get", !.ret = ret, !.run.passes = l.run.passes + 1]

\* const settings = await browser.storage.sync.get(DEFAULTS)
PassGet(h) ==
    /\ bg[h].pc = "p_get"
    /\ \/ LET settings == StorageGet(store, DEFAULTS)
          IN  /\ bg' = [bg EXCEPT
                     ![h].pc = "p_query",
                     ![h].queueMode = IF settings.queueMode = ""
                                      THEN DEFAULTS.queueMode ELSE settings.queueMode,
                     ![h].moveCount = IF settings.moveCount = 0
                                      THEN DEFAULTS.moveCount ELSE settings.moveCount,
                     ![h].showNotifications = settings.showNotifications]
              /\ UNCHANGED failures
       \/ Reject(h)
    /\ UNCHANGED <<now, store, alarms, tabs, startups, installed, edits, cronLibBlank, orch, unit, pageVars>>

\* a pass without the early return on an empty list
AfterQueryNoReturn(l, actionableTabsData) ==
    IF actionableTabsData = <<>>
    THEN [l EXCEPT !.pc = "p_set", !.run.empty = TRUE]
    ELSE [l EXCEPT !.pc = "p_target", !.batch = actionableTabsData]

\* if (actionableTabsData.length === 0) { ... return; }: the locals after it
AfterQuery(l, actionableTabsData) ==
    IF actionableTabsData = <<>>
    THEN [l EXCEPT !.pc = l.ret, !.run.empty = TRUE]
    ELSE [l EXCEPT !.pc = "p_target", !.batch = actionableTabsData]

\* const actionableTabsData = await getActionableTabsSorted(queueMode)
PassQuery(h) ==
    /\ bg[h].pc = "p_query"
    /\ \/ /\ bg' = [bg EXCEPT ![h] =
                   AfterQuery(bg[h], GetActionableTabsSorted(tabs, bg[h].queueMode))]
          /\ UNCHANGED failures
       \/ Reject(h)
    /\ UNCHANGED <<now, store, alarms, tabs, startups, installed, edits, cronLibBlank, orch, unit, pageVars>>

\* const targetIndex = await getTargetIndexForActionableTabs();
\* const tabsToMove = actionableTabsData.slice(0, moveCount)
PassTarget(h) ==
    /\ bg[h].pc = "p_target"
    /\ \/ /\ bg' = [bg EXCEPT ![h].pc = "p_move",
                              ![h].targetIndex = GetTargetIndex(tabs),
                              ![h].batch = Slice(bg[h].batch, bg[h].moveCount),
                              ![h].i = 0,
                              ![h].anyTabMoved = FALSE]
          /\ UNCHANGED failures
       \/ Reject(h)
    /\ UNCHANGED <<now, store, alarms, tabs, startups, installed, edits, cronLibBlank, orch, unit, pageVars>>

\* one iteration of the for loop: await browser.tabs.move(tabId, {index}),
\* whose rejection the loop's try/catch turns into didMove = false
PassMove(h) ==
    /\ bg[h].pc = "p_move"
    /\ LET e == bg[h].batch[bg[h].i + 1]
           desiredIndex == bg[h].targetIndex + bg[h].i
           last == bg[h].i + 1 = Len(bg[h].batch)
           after(didMove) ==
               [bg EXCEPT ![h].i = bg[h].i + 1,
                          ![h].anyTabMoved = bg[h].anyTabMoved \/ didMove,
                          ![h].run.moves = bg[h].run.moves + 1,
                          ![h].pc = IF last THEN "p_set" ELSE "p_move"]
       IN  \/ /\ tabs' = TabsMove(tabs, e.tabId, desiredIndex)
              /\ bg' = after(e.index # IndexOf(tabs', e.tabId) - 1)
              /\ UNCHANGED failures
           \/ /\ CanFail
              /\ failures' = failures + 1
              /\ bg' = after(FALSE)
              /\ UNCHANGED tabs
    /\ UNCHANGED <<now, store, alarms, startups, installed, edits, cronLibBlank, orch, unit, pageVars>>

\* a pass that writes lastMoveTime only when a tab changed position
PassSetIfMoved(h) ==
    /\ bg[h].pc = "p_set"
    /\ store' = IF bg[h].anyTabMoved
                THEN StorageSet(store, [lastMoveTime |-> now]) ELSE store
    /\ bg' = [bg EXCEPT
           ![h].pc = bg[h].ret,
           ![h].run.writes = bg[h].run.writes + (IF bg[h].anyTabMoved THEN 1 ELSE 0),
           ![h].run.notifs = bg[h].run.notifs +
               (IF bg[h].anyTabMoved /\ bg[h].showNotifications THEN 1 ELSE 0)]
    /\ UNCHANGED <<now, alarms, tabs, failures, startups, installed, edits,
                   cronLibBlank, orch, unit, pageVars>>

\* await browser.storage.sync.set({lastMoveTime: Date.now()}), then the
\* notification when anyTabMoved && settings.showNotifications !== false
PassSet(h) ==
    /\ bg[h].pc = "p_set"
    /\ \/ /\ store' = StorageSet(store, [lastMoveTime |-> now])
          /\ bg' = [bg EXCEPT
                 ![h].pc = bg[h].ret,
                 ![h].run.writes = bg[h].run.writes + 1,
                 ![h].run.notifs = bg[h].run.notifs +
                     (IF bg[h].anyTabMoved /\ bg[h].showNotifications THEN 1 ELSE 0)]
          /\ UNCHANGED failures
       \/ /\ Reject(h)
          /\ UNCHANGED store
    /\ UNCHANGED <<now, alarms, tabs, startups, installed, edits, cronLibBlank, orch, unit, pageVars>>

\* ---- runtime.onStartup: checkForMissedMovesAndCatchUp, then scheduleNextMove
OnStartup ==
    /\ startups < MaxStartups
    /\ \A h \in Handlers : ~Running(h)
    /\ startups' = startups + 1
    /\ bg' = [bg EXCEPT !["startup"] = Locals("cu_get", "")]
    /\ UNCHANGED <<now, store, alarms, tabs, failures, installed, edits, cronLibBlank, orch, unit, pageVars>>

\* a catch-up that needs more than one missed occurrence to run its pass
CheckForMissedMovesSkipOne(l, settings, nowT) ==
    LET cronSchedule == EffectiveCron(settings)
        missedMoves == CalculateMissedMoves(cronSchedule, settings.lastMoveTime, nowT)
    IN  IF settings.lastMoveTime = NoTime
        THEN [l EXCEPT !.pc = "s_get"]
        ELSE IF missedMoves > 1
             THEN [l EXCEPT !.pc = "p_get", !.ret = "cu_set", !.cron = cronSchedule,
                            !.missed = missedMoves, !.run.passes = l.run.passes + 1]
             ELSE [l EXCEPT !.pc = "s_get", !.cron = cronSchedule,
                            !.missed = missedMoves]

\* a catch-up without `if (!lastMoveTime) return`
CheckForMissedMovesNoNullCheck(l, settings, nowT) ==
    LET cronSchedule == EffectiveCron(settings)
        missedMoves == CalculateMissedMoves(cronSchedule, settings.lastMoveTime, nowT)
    IN  IF missedMoves > 0
        THEN EnterPass([l EXCEPT !.cron = cronSchedule,
                                 !.missed = missedMoves], "cu_set")
        ELSE [l EXCEPT !.pc = "s_get", !.cron = cronSchedule,
                       !.missed = missedMoves]

\* a catch-up that goes on to scheduling without running its pass
CheckForMissedMovesNotAwaited(l, settings, nowT) ==
    LET cronSchedule == EffectiveCron(settings)
        missedMoves == CalculateMissedMoves(cronSchedule, settings.lastMoveTime, nowT)
    IN  IF settings.lastMoveTime = NoTime
        THEN [l EXCEPT !.pc = "s_get"]
        ELSE [l EXCEPT !.pc = "s_get", !.cron = cronSchedule, !.missed = missedMoves]

\* a catch-up that runs its pass whenever a lastMoveTime is stored
CheckForMissedMovesEveryStart(l, settings, nowT) ==
    LET cronSchedule == EffectiveCron(settings)
        missedMoves == CalculateMissedMoves(cronSchedule, settings.lastMoveTime, nowT)
    IN  IF settings.lastMoveTime = NoTime
        THEN [l EXCEPT !.pc = "s_get"]
        ELSE EnterPass([l EXCEPT !.cron = cronSchedule,
                                 !.missed = missedMoves], "cu_set")

\* checkForMissedMovesAndCatchUp from its storage read to its call of
\* moveActionableTabsToTop (or its return): the listener's locals afterwards
CheckForMissedMoves(l, settings, nowT) ==
    LET lastMoveTime == settings.lastMoveTime
        cronSchedule == EffectiveCron(settings)
        missedMoves == CalculateMissedMoves(cronSchedule, lastMoveTime, nowT)
    IN  IF lastMoveTime = NoTime
        THEN [l EXCEPT !.pc = "s_get"]
        ELSE IF missedMoves > 0
             THEN EnterPass([l EXCEPT !.cron = cronSchedule,
                                      !.missed = missedMoves], "cu_set")
             ELSE [l EXCEPT !.pc = "s_get", !.cron = cronSchedule,
                            !.missed = missedMoves]

CatchUpGet ==
    /\ bg["startup"].pc = "cu_get"
    /\ \/ /\ bg' = [bg EXCEPT !["startup"] =
                   CheckForMissedMoves(bg["startup"], StorageGet(store, DEFAULTS), now)]
          /\ UNCHANGED failures
       \/ Reject("startup")
    /\ UNCHANGED <<now, store, alarms, tabs, startups, installed, edits, cronLibBlank, orch, unit, pageVars>>

\* await browser.storage.sync.set({ lastMoveTime: Date.now() }) after the pass
CatchUpSet ==
    /\ bg["startup"].pc = "cu_set"
    /\ \/ /\ store' = StorageSet(store, [lastMoveTime |-> now])
          /\ bg' = [bg EXCEPT !["startup"].pc = "s_get",
                              !["startup"].run.writes = bg["startup"].run.writes + 1]
          /\ UNCHANGED failures
       \/ /\ Reject("startup")
          /\ UNCHANGED store
    /\ UNCHANGED <<now, alarms, tabs, startups, installed, edits, cronLibBlank, orch, unit, pageVars>>

\* ---- alarms.onAlarm: the one-shot alarm is due, the host removes it and
\* calls the listener: moveActionableTabsToTop, then scheduleNextMove
OnAlarm ==
    /\ ~Running("alarm")
    /\ \E a \in alarms :
        /\ a.name = ALARM_NAME
        /\ a.scheduledTime <= now
        /\ alarms' = alarms \ {a}
    /\ bg' = [bg EXCEPT !["alarm"] = EnterPass(Locals("idle", ""), "s_get")]
    /\ UNCHANGED <<now, store, tabs, failures, startups, installed, edits, cronLibBlank, orch, unit, pageVars>>

\* ---- the settings page stores another cronSchedule; storage.onChanged:
\* if (areaName === 'sync' && changes.cronSchedule) await scheduleNextMove()
CronInputs == {CRON_1, "", CRON_BLANK, CRON_BAD}

OnCronChanged ==
    /\ ~Running("changed")
    /\ edits < MaxEdits
    /\ edits' = edits + 1
    /\ \E c \in CronInputs :
        /\ Some(c) # store.cronSchedule
        /\ store' = StorageSet(store, [cronSchedule |-> c])
    /\ bg' = [bg EXCEPT !["changed"] = Locals("s_get", "")]
    /\ UNCHANGED <<now, alarms, tabs, failures, startups, installed, cronLibBlank, orch, unit, pageVars>>

Next ==
    \/ Tick
    \/ OnInstalled
    \/ InitGet
    \/ InitSet
    \/ OnStartup
    \/ CatchUpGet
    \/ CatchUpSet
    \/ OnAlarm
    \/ OnCronChanged
    \/ \E h \in Handlers : ScheduleGet(h)
    \/ \E h \in Handlers : ScheduleClearStep(h)
    \/ \E h \in Handlers : ScheduleCreateStep(h)
    \/ \E h \in Handlers : PassGet(h)
    \/ \E h \in Handlers : PassQuery(h)
    \/ \E h \in Handlers : PassTarget(h)
    \/ \E h \in Handlers : PassMove(h)
    \/ \E h \in Handlers : PassSet(h)

Spec == Init /\ [][Next]_vars

\* ======================================================= the background engine
ScheduleComputed(h) == bg[h].pc \in {"s_clear", "s_create"}

InCatchUp(l) ==
    l.pc \in {"p_get", "p_query", "p_target", "p_move", "p_set", "cu_set", "s_get"}

\* C1: once the alarm listener has finished (its pass resolved or rejected)
\* and no other listener is about to arm, the alarm is armed again.
C1_RearmedAfterFiring ==
    (/\ bg["alarm"].pc \in {"done", "failed"}
     /\ \A h \in Handlers \ {"alarm"} : ~Running(h))
    => alarms # {}

\* C2: the startup catch-up runs one pass when the missed count is positive,
\* however large, and neither a pass nor a lastMoveTime write when it is 0.
C2_CatchUpOnce ==
    LET l == bg["startup"]
    IN  /\ l.run.passes <= 1
        /\ l.missed > 0 => l.run.passes = 1
        /\ l.missed = 0 => l.run.passes = 0 /\ l.run.writes = 0

C2_ManyMissedOnePass ==
    /\ bg["startup"].pc = "done"
    /\ bg["startup"].missed >= 2
    /\ bg["startup"].run.passes = 1

\* C3 as stated: a listener whose pass found no actionable tab requested no
\* move, showed no notification and wrote no lastMoveTime.
C3_EmptyPassNoOp ==
    \A h \in {"alarm", "startup"} :
        bg[h].run.empty =>
            /\ bg[h].run.moves = 0
            /\ bg[h].run.notifs = 0
            /\ bg[h].run.writes = 0

\* C3 amended: a pass that found no actionable tab requested no move and
\* showed no notification; the alarm listener then wrote no lastMoveTime,
\* while the catch-up wrote lastMoveTime once, after the pass returned.
C3_EmptyPassThenCatchUpWrites ==
    \A h \in {"alarm", "startup"} :
        bg[h].run.empty =>
            /\ bg[h].run.moves = 0
            /\ bg[h].run.notifs = 0
            /\ h = "alarm" => bg[h].run.writes = 0
            /\ h = "startup" =>
                  /\ bg[h].run.writes <= 1
                  /\ bg[h].pc = "cu_set" => bg[h].run.writes = 0
                  /\ bg[h].pc \in {"s_clear", "s_create", "done"} => bg[h].run.writes = 1

C3_BothEmptyPasses ==
    /\ bg["alarm"].pc = "done"
    /\ bg["alarm"].run.empty
    /\ bg["startup"].pc = "done"
    /\ bg["startup"].run.empty
    /\ bg["startup"].run.writes = 1

\* C7: a stored cronSchedule that is empty or whitespace yields no delay, and
\* no alarm is ever armed for it.
C7_BlankNeverScheduled ==
    /\ \A h \in Handlers :
          (ScheduleComputed(h) /\ IsSome(bg[h].raw) /\ IsBlank(Get(bg[h].raw)))
          => bg[h].delay = NoNumber
    /\ \A a \in alarms : ~(IsSome(a.raw) /\ IsBlank(Get(a.raw)))

\* C8: at most one alarm is armed in every reachable state.
C8_AtMostOneAlarm == Cardinality(alarms) <= 1

\* a listener has cleared and not yet created, and another armed in between
C8_ArmedBetweenClearAndCreate ==
    \E h \in Handlers : bg[h].pc = "s_create" /\ alarms # {}

\* C9: for a parseable schedule the delay is the least whole number of minutes
\* that is at least 1 and covers the gap to the occurrence, and the alarm is
\* never due before that occurrence.
C9_DelayIsCeil ==
    /\ \A h \in Handlers :
          (ScheduleComputed(h) /\ bg[h].occ # NoNumber) =>
              LET gap == bg[h].occ - bg[h].at
                  d == bg[h].delay
              IN  /\ d >= 1
                  /\ d * MS_PER_MINUTE >= gap
                  /\ d > 1 => (d - 1) * MS_PER_MINUTE < gap
    /\ \A a \in alarms :
          a.occ # NoNumber => a.delayInMinutes >= 1 /\ a.scheduledTime >= a.occ

\* an alarm whose delay was rounded up past its occurrence
C9_RoundedUp ==
    \E a \in alarms : a.occ # NoNumber /\ a.scheduledTime > a.occ

\* C10: for a non-empty schedule the parser rejects, the delay is the fallback
\* of 30 minutes, the missed count is 0 with no catch-up pass, and no listener
\* fails unless a host call rejected.
C10_UnparseableDegrades ==
    /\ \A h \in Handlers :
          (ScheduleComputed(h) /\ bg[h].cron # "" /\ CronThrows(bg[h].cron))
          => bg[h].delay = DEFAULT_DELAY_MINUTES
    /\ \A a \in alarms : a.occ = NoNumber => a.delayInMinutes = DEFAULT_DELAY_MINUTES
    /\ LET l == bg["startup"]
       IN  (InCatchUp(l) /\ l.missed # NoNumber /\ CronThrows(l.cron))
           => l.missed = 0 /\ l.run.passes = 0
    /\ failures = 0 => \A h \in Handlers : bg[h].pc # "failed"

C10_StartupWithBadCron ==
    /\ bg["startup"].pc = "s_create"
    /\ bg["startup"].cron = CRON_BAD
    /\ bg["startup"].missed = 0
    /\ bg["startup"].delay = DEFAULT_DELAY_MINUTES

\* ======================================================= storage.ts: getSettings
\* storage.onChanged reaches the page's listener once the page has registered it
PageAfterWrite(pg, old, new) ==
    LET queued == IF old # new
                  THEN [pg EXCEPT !.events = Append(@, [old |-> old, new |-> new])]
                  ELSE pg
    IN  IF pg.loaded /\ old # new THEN [queued EXCEPT !.changes = 1] ELSE queued

\* what the caller does with the settings getSettings() returned: the page
\* assigns them to settings.value (and its script goes on to register listeners)
Deliver(c, s, pg) ==
    IF c \in {"page", "changed"}
    THEN [pg EXCEPT !.loaded = TRUE, !.rules = s.rules]
    ELSE pg

\* return structuredClone(s)
Return(run, s) == [run EXCEPT !.pc = "returned", !.settings = None, !.result = Some(s)]

\* an awaited storage call of getSettings rejects: getSettings rejects
LoadReject(c) ==
    /\ CanFail
    /\ failures' = failures + 1
    /\ ld' = [ld EXCEPT ![c].pc = "failed", ![c].settings = None]
    /\ UNCHANGED <<store, page>>

\* const settings = await browser.storage.sync.get(), and the branch taken
GetSettingsGet(c) ==
    /\ ld[c].pc = "g_get"
    /\ \/ /\ ld' = [ld EXCEPT ![c] =
                   IF store.version = Some(1)
                   THEN [@ EXCEPT !.pc = "g_v1get"]
                   ELSE IF NeedsMigration(store)
                        THEN [@ EXCEPT !.pc = "g_mset",
                                       !.settings = Some([version |-> 1,
                                                          rules |-> <<MigratedRule(store)>>])]
                        ELSE [@ EXCEPT !.pc = "g_dset", !.settings = Some(RULE_DEFAULTS)]]
          /\ UNCHANGED <<store, page, failures>>
       \/ LoadReject(c)
    /\ UNCHANGED engineVars

\* const settingsWithDefaults = await browser.storage.sync.get(DEFAULTS), the
\* queue mode migration and the test for an empty rule list
GetSettingsV1Get(c) ==
    /\ ld[c].pc = "g_v1get"
    /\ \/ LET settings == StorageGet(store, RULE_DEFAULTS)
          IN  /\ ld' = [ld EXCEPT ![c] =
                     IF NeedsRuleMigration(settings.rules)
                     THEN [@ EXCEPT !.pc = "g_v1mig",
                                    !.settings = Some([settings EXCEPT
                                        !.rules = MigratedRules(settings.rules)])]
                     ELSE IF settings.rules = <<>>
                          THEN [@ EXCEPT !.pc = "g_v1fix",
                                         !.settings = Some([settings EXCEPT
                                             !.rules = <<DefaultRule>>])]
                          ELSE Return(@, settings)]
              /\ page' = IF NeedsRuleMigration(settings.rules) \/ settings.rules = <<>>
                         THEN page ELSE Deliver(c, settings, page)
              /\ UNCHANGED <<store, failures>>
       \/ LoadReject(c)
    /\ UNCHANGED engineVars

\* await browser.storage.sync.set(settings) with the migrated queue modes
GetSettingsV1Migrate(c) ==
    /\ ld[c].pc = "g_v1mig"
    /\ \/ LET settings == Get(ld[c].settings)
          IN  /\ store' = StorageSet(store, settings)
              /\ ld' = [ld EXCEPT ![c] =
                     IF settings.rules = <<>>
                     THEN [@ EXCEPT !.pc = "g_v1fix", !.writes = @ + 1,
                                    !.settings = Some([settings EXCEPT
                                        !.rules = <<DefaultRule>>])]
                     ELSE [Return(@, settings) EXCEPT !.writes = @ + 1]]
              /\ page' = IF settings.rules = <<>>
                         THEN PageAfterWrite(page, store, store')
                         ELSE Deliver(c, settings, PageAfterWrite(page, store, store'))
              /\ UNCHANGED failures
       \/ LoadReject(c)
    /\ UNCHANGED engineVars

\* the last write of a branch: set(settings) after the default rule was put
\* in, set(defaultsWithVersion), or remove([...legacy keys]); then return
GetSettingsLastWrite(c, pc, st) ==
    /\ ld[c].pc = pc
    /\ \/ /\ store' = st
          /\ ld' = [ld EXCEPT ![c] = [Return(@, Get(ld[c].settings)) EXCEPT !.writes = @ + 1]]
          /\ page' = Deliver(c, Get(ld[c].settings), PageAfterWrite(page, store, st))
          /\ UNCHANGED failures
       \/ LoadReject(c)
    /\ UNCHANGED engineVars

GetSettingsV1Fix(c) ==
    GetSettingsLastWrite(c, "g_v1fix", StorageSet(store, Get(ld[c].settings)))

GetSettingsDefaultsSet(c) ==
    GetSettingsLastWrite(c, "g_dset", StorageSet(store, Get(ld[c].settings)))

GetSettingsMigrateRemove(c) ==
    GetSettingsLastWrite(c, "g_mrem", StorageRemove(store, LegacyKeys))

\* await browser.storage.sync.set(newSettings) of the legacy migration
GetSettingsMigrateSet(c) ==
    /\ ld[c].pc = "g_mset"
    /\ \/ /\ store' = StorageSet(store, Get(ld[c].settings))
          /\ ld' = [ld EXCEPT ![c].pc = "g_mrem", ![c].writes = @ + 1]
          /\ page' = PageAfterWrite(page, store, store')
          /\ UNCHANGED failures
       \/ LoadReject(c)
    /\ UNCHANGED engineVars

\* a call of getSettings()
StartLoad(c) == [GRun("g_get") EXCEPT !.before = Some(store)]

\* ---- two calls of getSettings(), the second right after the first returned
\* the stores a load may find
RuleA(queueMode) == Rule("a", CRON_1, queueMode, TickMs, 2, "right", FALSE)
RuleB(queueMode) == Rule("b", "", queueMode, NoTime, 1, "left", TRUE)

LegacyStores ==
    { [EmptyStore EXCEPT !.cronSchedule = c, !.queueMode = q, !.lastMoveTime = l,
                         !.moveCount = m, !.moveDirection = d, !.showNotifications = n] :
        c \in {None, Some(CRON_1), Some("")},
        q \in {None, Some("oldest-first"), Some("rightmost"), Some("bogus")},
        l \in {None, Some(NoTime), Some(TickMs)},
        m \in {None, Some(0), Some(2)},
        d \in {None, Some("right")},
        n \in {None, Some(FALSE), Some(TRUE)} }

V1RuleLists ==
    { <<>>, <<DefaultRule>>, <<RuleA("oldest-first")>>, <<RuleA("bogus")>>,
      <<RuleA("newest-first"), RuleB("rightmost")>>,
      <<RuleB("leftmost-first"), RuleA("rightmost-first")>> }

V1Stores ==
    { [EmptyStore EXCEPT !.version = Some(1), !.rules = r, !.lastMoveTime = l] :
        r \in {None} \cup {Some(x) : x \in V1RuleLists},
        l \in {None, Some(TickMs)} }

LoadInits == LegacyStores \cup V1Stores

InitLoad ==
    /\ store \in LoadInits
    /\ ld = [c \in Loaders |-> IF c = "first" THEN StartLoad(c) ELSE GRun("idle")]
    /\ page = ClosedPage
    /\ calc = NoCalc
    /\ ex = NoExec
    /\ now = StartTime
    /\ alarms = {}
    /\ tabs = <<>>
    /\ bg = [h \in Handlers |-> Locals("idle", "")]
    /\ failures = 0
    /\ startups = 0
    /\ installed = FALSE
    /\ edits = 0
    /\ cronLibBlank = "throws"
    /\ orch = NoOrch
    /\ unit = NoUnit

SecondLoad ==
    /\ ld["first"].pc = "returned"
    /\ ld["second"].pc = "idle"
    /\ ld' = [ld EXCEPT !["second"] = StartLoad("second")]
    /\ UNCHANGED <<store, page, failures, engineVars>>

TwoLoads == {"first", "second"}

NextLoad ==
    \/ SecondLoad
    \/ \E c \in TwoLoads : GetSettingsGet(c)
    \/ \E c \in TwoLoads : GetSettingsV1Get(c)
    \/ \E c \in TwoLoads : GetSettingsV1Migrate(c)
    \/ \E c \in TwoLoads : GetSettingsV1Fix(c)
    \/ \E c \in TwoLoads : GetSettingsDefaultsSet(c)
    \/ \E c \in TwoLoads : GetSettingsMigrateSet(c)
    \/ \E c \in TwoLoads : GetSettingsMigrateRemove(c)

SpecLoad == InitLoad /\ [][NextLoad]_vars

\* the call started on a legacy flat store: no version, a legacy key stored
FromLegacy(run) ==
    /\ IsSome(run.before)
    /\ Get(run.before).version = None
    /\ NeedsMigration(Get(run.before))

QueueModes == {"oldest", "newest", "leftmost", "rightmost"}

\* C5 as stated: a load of a legacy flat store returns version 1 with one rule
\* whose five settings are the stored legacy values (the default for an
\* absent key), and leaves no legacy key in the store.
C5_LegacyValuesKept ==
    (ld["first"].pc = "returned" /\ FromLegacy(ld["first"])) =>
        LET legacy == Get(ld["first"].before)
            loaded == Get(ld["first"].result)
        IN  /\ loaded.version = 1
            /\ Len(loaded.rules) = 1
            /\ \A k \in LegacyKeys \ {"lastMoveTime"} :
                  loaded.rules[1][k] =
                      IF IsSome(legacy[k]) THEN Get(legacy[k]) ELSE DefaultRule[k]
            /\ \A k \in LegacyKeys : store[k] = None

\* C5 amended: the rule's moveDirection and showNotifications are the stored
\* values, its queueMode is the stored mode in today's spelling (without
\* "-first"; the default for an unknown mode), its cronSchedule and moveCount
\* are the stored values unless those are "" or 0; the default stands in for
\* those and for absent keys.  No legacy key is left in the store.
C5_LegacyMigrated ==
    (ld["first"].pc = "returned" /\ FromLegacy(ld["first"])) =>
        LET legacy == Get(ld["first"].before)
            loaded == Get(ld["first"].result)
            rule == loaded.rules[1]
            kept(k, falsy) ==
                IF IsSome(legacy[k]) /\ Get(legacy[k]) \notin falsy
                THEN Get(legacy[k]) ELSE DefaultRule[k]
            spelt(q) ==
                IF q \in QueueModes THEN q
                ELSE IF \E m \in QueueModes : q = m \o "-first"
                     THEN CHOOSE m \in QueueModes : q = m \o "-first"
                     ELSE DefaultRule.queueMode
        IN  /\ loaded.version = 1
            /\ Len(loaded.rules) = 1
            /\ rule.cronSchedule = kept("cronSchedule", {""})
            /\ rule.moveCount = kept("moveCount", {0})
            /\ rule.moveDirection = kept("moveDirection", {""})
            /\ rule.showNotifications = kept("showNotifications", {})
            /\ rule.queueMode = IF IsSome(legacy.queueMode)
                                THEN spelt(Get(legacy.queueMode))
                                ELSE DefaultRule.queueMode
            /\ \A k \in LegacyKeys : store[k] = None

C5_OldSpellingMigrated ==
    /\ ld["first"].pc = "returned"
    /\ FromLegacy(ld["first"])
    /\ Get(ld["first"].before).queueMode = Some("oldest-first")
    /\ Get(ld["first"].before).cronSchedule = Some("")
    /\ Get(ld["first"].before).showNotifications = Some(FALSE)
    /\ Get(ld["first"].result).rules[1].queueMode = "oldest"

\* C6: a second load right after the first returns the same settings and
\* makes no set or remove call, leaving the store as it found it.
C6_SecondLoadSame ==
    ld["second"].pc = "returned" =>
        /\ ld["second"].result = ld["first"].result
        /\ ld["second"].writes = 0
        /\ store = Get(ld["second"].before)

C6_AfterMigration ==
    /\ ld["second"].pc = "returned"
    /\ ld["first"].writes = 2

\* ================================================== the rules settings page
\* autoSaveRules without its test for an empty list
AutoSaveRulesUnguarded(pg, rules) ==
    [pg EXCEPT !.rules = rules, !.pendingChanges = Some(rules),
               !.debounceTimeout = TRUE, !.saveStatus = "saving", !.reset = FALSE]

\* autoSaveRules(rules): the page afterwards; the debounce timer is (re)armed
AutoSaveRules(pg, rules) ==
    IF rules = <<>>
    THEN [pg EXCEPT !.rejected = @ + 1]
    ELSE [pg EXCEPT !.rules = rules, !.pendingChanges = Some(rules),
                    !.debounceTimeout = TRUE, !.saveStatus = "saving", !.reset = FALSE]

\* a click or an input event of the user on the loaded page
UserOp(pg) ==
    /\ page.loaded
    /\ page.ops < MaxOps
    /\ page' = [pg EXCEPT !.ops = @ + 1]
    /\ UNCHANGED <<store, ld, failures, engineVars>>

\* updateRule(index, updates)
RuleUpdates == {"queueMode", "cronSchedule"}

UpdateRule(index, field) ==
    LET newRules == [page.rules EXCEPT ![index] =
                        IF field = "queueMode"
                        THEN [@ EXCEPT !.queueMode = "newest"]
                        ELSE [@ EXCEPT !.cronSchedule = ""]]
    IN  UserOp(AutoSaveRules(page, newRules))

\* an addRule that puts the new rule first
AddRuleInFront ==
    LET newRule == Rule("uuid-" \o ToString(page.added), CRON_30, "leftmost-first",
                        NoTime, 1, "left", TRUE)
    IN  /\ Len(page.rules) < MaxRules
        /\ UserOp([AutoSaveRules(page, <<newRule>> \o page.rules)
                      EXCEPT !.added = @ + 1])

\* addRule()
AddRule ==
    LET newRule == Rule("uuid-" \o ToString(page.added), CRON_30, "leftmost-first",
                        NoTime, 1, "left", TRUE)
    IN  /\ Len(page.rules) < MaxRules
        /\ UserOp([AutoSaveRules(page, Append(page.rules, newRule))
                      EXCEPT !.added = @ + 1])

\* removeRule(index)
RemoveRule(index) ==
    IF Len(page.rules) <= 1
    THEN UserOp([page EXCEPT !.rejected = @ + 1])
    ELSE UserOp(AutoSaveRules(page,
             SubSeq(page.rules, 1, index - 1) \o
             SubSeq(page.rules, index + 1, Len(page.rules))))

\* moveRule(index, direction), from the buttons the page shows
MoveRule(index, direction) ==
    LET rest == SubSeq(page.rules, 1, index - 1) \o
                SubSeq(page.rules, index + 1, Len(page.rules))
        newIndex == IF direction = "up" THEN index - 1 ELSE index + 1
    IN  /\ direction = "up" => index > 1
        /\ direction = "down" => index < Len(page.rules)
        /\ UserOp(AutoSaveRules(page,
               SubSeq(rest, 1, newIndex - 1) \o <<page.rules[index]>> \o
               SubSeq(rest, newIndex, Len(rest))))

\* autoSaveRules called with an empty list
AutoSaveEmpty == UserOp(AutoSaveRules(page, <<>>))

\* the RESET button: await browser.storage.sync.set(DEFAULTS)
Reset ==
    /\ page.loaded
    /\ page.ops < MaxOps
    /\ \/ /\ store' = StorageSet(store, RULE_DEFAULTS)
          /\ page' = PageAfterWrite([page EXCEPT !.ops = @ + 1, !.reset = TRUE],
                                   store, store')
          /\ UNCHANGED failures
       \/ /\ CanFail
          /\ failures' = failures + 1
          /\ page' = [page EXCEPT !.ops = @ + 1]
          /\ UNCHANGED store
    /\ UNCHANGED <<ld, engineVars>>

\* the debounce timer fires: browser.storage.sync.set(pendingChanges) is called
DebounceFire ==
    /\ page.debounceTimeout
    /\ page.set = "none"
    /\ \/ /\ store' = IF IsSome(page.pendingChanges)
                      THEN StorageSet(store, [rules |-> Get(page.pendingChanges)])
                      ELSE store
          /\ page' = PageAfterWrite([page EXCEPT !.debounceTimeout = FALSE,
                                                 !.set = "resolved"], store, store')
          /\ UNCHANGED failures
       \/ /\ CanFail
          /\ failures' = failures + 1
          /\ page' = [page EXCEPT !.debounceTimeout = FALSE, !.set = "rejected"]
          /\ UNCHANGED store
    /\ UNCHANGED <<ld, engineVars>>

\* the awaited set settles: pendingChanges = {}; saveStatus = "saved", or the
\* catch block's saveStatus = "error"
SetSettled ==
    /\ page.set # "none"
    /\ page' = IF page.set = "resolved"
               THEN [page EXCEPT !.set = "none", !.pendingChanges = None,
                                 !.saveStatus = "saved"]
               ELSE [page EXCEPT !.set = "none", !.saveStatus = "error"]
    /\ UNCHANGED <<store, ld, failures, engineVars>>

\* storage.onChanged listener of the page: const s = await getSettings()
PageOnChanged ==
    /\ page.changes = 1
    /\ ld["changed"].pc \in {"idle", "returned", "failed"}
    /\ page' = [page EXCEPT !.changes = 0]
    /\ ld' = [ld EXCEPT !["changed"] = StartLoad("changed")]
    /\ UNCHANGED <<store, failures, engineVars>>

\* the test of the background's storage.onChanged listener:
\* areaName === 'sync' && changes.cronSchedule
OnChangedSchedules(changes) == changes.old.cronSchedule # changes.new.cronSchedule

\* the host delivers the oldest pending change of the sync area to the
\* background's storage.onChanged listener, which awaits scheduleNextMove()
\* when its test holds and returns otherwise
BgOnChanged ==
    /\ page.events # <<>>
    /\ ~Running("changed")
    /\ page' = [page EXCEPT !.events = Tail(@)]
    /\ bg' = IF OnChangedSchedules(Head(page.events))
             THEN [bg EXCEPT !["changed"] = Locals("s_get", "")]
             ELSE bg
    /\ UNCHANGED <<now, store, alarms, tabs, failures, startups, installed, edits,
                   cronLibBlank, orch, unit, ld, calc, ex>>

PageStores ==
    { EmptyStore,
      [EmptyStore EXCEPT !.cronSchedule = Some(CRON_1),
                         !.queueMode = Some("newest-first"), !.moveCount = Some(2)],
      [EmptyStore EXCEPT !.version = Some(1), !.rules = Some(<<>>)],
      [EmptyStore EXCEPT !.version = Some(1),
                         !.rules = Some(<<RuleB("leftmost-first"), RuleA("rightmost")>>)] }

InitPage ==
    /\ store \in PageStores
    /\ ld = [c \in Loaders |-> IF c = "page" THEN StartLoad(c) ELSE GRun("idle")]
    /\ page = ClosedPage
    /\ calc = NoCalc
    /\ ex = NoExec
    /\ now = StartTime
    /\ alarms = {}
    /\ tabs = <<>>
    /\ bg = [h \in Handlers |-> Locals("idle", "")]
    /\ failures = 0
    /\ startups = 0
    /\ installed = FALSE
    /\ edits = 0
    /\ cronLibBlank = "throws"
    /\ orch = NoOrch
    /\ unit = NoUnit

PageLoads == {"page", "changed"}

NextPage ==
    \/ \E c \in PageLoads : GetSettingsGet(c)
    \/ \E c \in PageLoads : GetSettingsV1Get(c)
    \/ \E c \in PageLoads : GetSettingsV1Migrate(c)
    \/ \E c \in PageLoads : GetSettingsV1Fix(c)
    \/ \E c \in PageLoads : GetSettingsDefaultsSet(c)
    \/ \E c \in PageLoads : GetSettingsMigrateSet(c)
    \/ \E c \in PageLoads : GetSettingsMigrateRemove(c)
    \/ \E i \in DOMAIN page.rules, f \in RuleUpdates : UpdateRule(i, f)
    \/ AddRule
    \/ \E i \in DOMAIN page.rules : RemoveRule(i)
    \/ \E i \in DOMAIN page.rules, d \in {"up", "down"} : MoveRule(i, d)
    \/ AutoSaveEmpty
    \/ Reset
    \/ DebounceFire
    \/ SetSettled
    \/ PageOnChanged
    \/ BgOnChanged
    \/ ScheduleGet("changed")
    \/ ScheduleClearStep("changed")
    \/ ScheduleCreateStep("changed")

SpecPage == InitPage /\ [][NextPage]_vars

\* C4: once the page has loaded, the stored rule list, the page's rule list
\* and every list a load returned hold at least one rule.
C4_RulesNeverEmpty ==
    /\ page.loaded => IsSome(store.rules) /\ Len(Get(store.rules)) >= 1
    /\ page.loaded => Len(page.rules) >= 1
    /\ \A c \in Loaders : ld[c].pc = "returned" => Len(Get(ld[c].result).rules) >= 1

\* a save went through after an attempt was turned down
C4_SavedAfterRejection ==
    /\ page.rejected >= 1
    /\ page.saveStatus = "saved"
    /\ Len(Get(store.rules)) = MaxRules

\* ------------------------------------ background.js: calculateMissedMoves
\* calculateMissedMoves(cronSchedule, lastMoveTime) up to its loop: the parser
\* is built on `currentDate: new Date(lastMoveTime)`; a throw is caught and
\* the function returns 0
CountStart ==
    /\ calc.pc = "start"
    /\ calc' = IF CronThrows(calc.cronSchedule)
               THEN [calc EXCEPT !.pc = "done", !.result = 0]
               ELSE [calc EXCEPT !.pc = "loop", !.cur = calc.lastMoveTime,
                                 !.missedCount = 0]
    /\ UNCHANGED <<now, store, alarms, tabs, bg, failures, startups, installed,
                   edits, cronLibBlank, orch, unit, ld, page, ex>>

\* one iteration of the loop; after the break, `return missedCount`
CountIter ==
    /\ calc.pc = "loop"
    /\ LET s == MissedStep(calc.cronSchedule, calc.cur, calc.nowT, calc.missedCount)
       IN  calc' = IF s.brk
                   THEN [calc EXCEPT !.pc = "done", !.cur = s.cur,
                                     !.missedCount = s.missedCount,
                                     !.result = s.missedCount]
                   ELSE [calc EXCEPT !.cur = s.cur, !.missedCount = s.missedCount]
    /\ UNCHANGED <<now, store, alarms, tabs, bg, failures, startups, installed,
                   edits, cronLibBlank, orch, unit, ld, page, ex>>

\* a call with the given schedule, lastMoveTime and clock reading
Call(cronSchedule, lastMoveTime, nowT) ==
    [NoCalc EXCEPT !.pc = "start", !.cronSchedule = cronSchedule,
                   !.lastMoveTime = lastMoveTime, !.nowT = nowT]

NINETY_FIVE_MINUTES == 95 * MS_PER_MINUTE
HALF_HOUR == 30 * MS_PER_MINUTE

\* instants half a minute apart
ShortInstants == {StartTime + k * TickMs : k \in 0..MaxSpan}

\* instants spread over one half hour of the wall clock
HalfHourInstants == {HALF_HOUR + m * TickMs : m \in 0..59}

\* an absence longer than the loop's limit on an every-minute schedule
LongAbsence == (MAX_MISSED_ITERATIONS + 2) * MS_PER_MINUTE

CountInits ==
    {Call(e, t1, t2) : e \in {CRON_1, CRON_2, CRON_BAD}, t1 \in ShortInstants,
                       t2 \in ShortInstants}
    \cup {Call(CRON_30, t, t + NINETY_FIVE_MINUTES) : t \in HalfHourInstants}
    \cup {Call(CRON_1, t, t + LongAbsence) : t \in {StartTime, StartTime + TickMs}}

InitCount ==
    /\ calc \in CountInits
    /\ ex = NoExec
    /\ store = EmptyStore
    /\ ld = [c \in Loaders |-> GRun("idle")]
    /\ page = ClosedPage
    /\ now = StartTime
    /\ alarms = {}
    /\ tabs = <<>>
    /\ bg = [h \in Handlers |-> Locals("idle", "")]
    /\ failures = 0
    /\ startups = 0
    /\ installed = FALSE
    /\ edits = 0
    /\ cronLibBlank = "throws"
    /\ orch = NoOrch
    /\ unit = NoUnit

NextCount == CountStart \/ CountIter

SpecCount == InitCount /\ [][NextCount]_vars

\* the number of occurrences t of the schedule with since < t <= nowT, read
\* off the wall clock
CountOccurrences(expr, since, nowT) ==
    LET p == CronPeriod(expr) * MS_PER_MINUTE
    IN  Cardinality({k \in 0..(nowT \div p) : k * p > since /\ k * p <= nowT})

ValidCall == calc.pc = "done" /\ ~CronThrows(calc.cronSchedule)

\* C11: for a valid schedule and since <= now the returned count is the
\* number of occurrences t with since < t <= now, as long as that number is
\* below the safety cap; a call with since = now returns 0.
C11_CountsOccurrences ==
    (ValidCall /\ calc.lastMoveTime <= calc.nowT
       /\ CountOccurrences(calc.cronSchedule, calc.lastMoveTime, calc.nowT)
            < MAX_MISSED_ITERATIONS)
    => /\ calc.result
            = CountOccurrences(calc.cronSchedule, calc.lastMoveTime, calc.nowT)
       /\ (calc.lastMoveTime = calc.nowT => calc.result = 0)

\* a finished call whose `now` is itself an occurrence, with two or more counted
C11_OccurrenceAtNow ==
    /\ ValidCall
    /\ calc.lastMoveTime < calc.nowT
    /\ calc.nowT % (CronPeriod(calc.cronSchedule) * MS_PER_MINUTE) = 0
    /\ calc.result >= 2

\* C12: the counting loop ends and the count it returns is at most 10,000,
\* however long the interval.
C12_CountAtMostCap ==
    calc.pc = "done" => calc.result <= MAX_MISSED_ITERATIONS

\* C13 as stated: with "*/30 * * * *" and now = lastMoveTime + 95 minutes the
\* count is 3 for every lastMoveTime.
C13_AlwaysThree ==
    (calc.pc = "done" /\ calc.cronSchedule = CRON_30
       /\ calc.nowT = calc.lastMoveTime + NINETY_FIVE_MINUTES)
    => calc.result = 3

\* C13: with "*/30 * * * *" and now = lastMoveTime + 95 minutes the count is 3
\* when lastMoveTime lies less than 25 minutes after an occurrence of the
\* schedule, and 4 otherwise.
C13_ThreeOrFour ==
    (calc.pc = "done" /\ calc.cronSchedule = CRON_30
       /\ calc.nowT = calc.lastMoveTime + NINETY_FIVE_MINUTES)
    => calc.result = IF calc.lastMoveTime % HALF_HOUR < 25 * MS_PER_MINUTE
                     THEN 3 ELSE 4

\* a lastMoveTime 25 minutes or more past the half hour, counted
C13_LateInHalfHour ==
    /\ calc.pc = "done" /\ calc.cronSchedule = CRON_30
    /\ calc.nowT = calc.lastMoveTime + NINETY_FIVE_MINUTES
    /\ calc.lastMoveTime % HALF_HOUR >= 25 * MS_PER_MINUTE
    /\ calc.result = 4

\* ------------------------------------------------ claims on the catch-up
\* the startup listener's storage read of checkForMissedMovesAndCatchUp
\* resolves in this step
CatchUpReads ==
    /\ bg["startup"].pc = "cu_get"
    /\ bg'["startup"].pc # "cu_get"
    /\ failures' = failures

\* the startup listener went past its catch-up check without counting
SkippedCatchUp ==
    /\ bg["startup"].pc \in {"s_get", "s_clear", "s_create", "done"}
    /\ bg["startup"].missed = NoNumber

\* C14: when the stored lastMoveTime is null the startup catch-up check goes
\* straight on to scheduling: it counts nothing, runs no pass, requests no
\* move and writes nothing to the store.
C14_NeverFiredNoCatchUp ==
    /\ [](SkippedCatchUp => bg["startup"].run = NewRun)
    /\ [][(CatchUpReads /\ StorageGet(store, DEFAULTS).lastMoveTime = NoTime)
          => (/\ bg'["startup"].pc = "s_get"
              /\ bg'["startup"].missed = NoNumber
              /\ bg'["startup"].run = NewRun
              /\ store' = store
              /\ tabs' = tabs)]_vars

\* the startup listener is past the check with nothing counted, the store
\* holds no lastMoveTime, an occurrence has gone by and a tab is actionable
C14_SkippedWithActionableTabs ==
    /\ SkippedCatchUp
    /\ StorageGet(store, DEFAULTS).lastMoveTime = NoTime
    /\ ActionableFrom(tabs, 1) # <<>>
    /\ now > StartTime

\* the startup listener is in scheduleNextMove or has returned from it
StartupScheduling == bg["startup"].pc \in {"s_get", "s_clear", "s_create", "done"}

\* C15: in the startup listener the catch-up check runs once and is over,
\* its pass and its lastMoveTime write included, before scheduleNextMove
\* begins; the listener touches the alarm only from scheduleNextMove, never
\* while its catch-up pass is under way.
C15_CatchUpBeforeArming ==
    /\ [](StartupScheduling =>
            /\ bg["startup"].run.passes <= 1
            /\ (bg["startup"].missed > 0 =>
                    bg["startup"].run.passes = 1 /\ bg["startup"].run.writes >= 1)
            /\ (bg["startup"].missed <= 0 => bg["startup"].run = NewRun))
    /\ [][(bg'["startup"] # bg["startup"] /\ alarms' # alarms)
          => bg["startup"].pc \in {"s_clear", "s_create"}]_vars

\* the startup listener has caught up with one pass and then armed the alarm
C15_CaughtUpThenArmed ==
    /\ bg["startup"].pc = "done"
    /\ bg["startup"].missed > 0
    /\ bg["startup"].run.passes = 1
    /\ \E a \in alarms : a.scheduledTime > now

\* ------------------------------------------- claims on the notification
\* listener h leaves the last await of its pass in this step, resolved or
\* rejected
PassEnds(h) == bg[h].pc = "p_set" /\ bg'[h].pc # "p_set"

Notifies(h) == bg'[h].run.notifs > bg[h].run.notifs

\* C20: an automatic pass emits a notification if and only if one of its
\* items changed position (anyTabMoved) and showNotifications is true; no
\* other step of a pass notifies.
C20_NotifiesIffMoved ==
    [][\A h \in Handlers :
          /\ Notifies(h) => PassEnds(h)
          /\ PassEnds(h) =>
                (Notifies(h) <=> (bg[h].anyTabMoved /\ bg[h].showNotifications))]_vars

\* ------------------------------------------------- tab.js: a pass in isolation
\* getTargetIndexForActionableTabs(moveDirection)
GetTargetIndexForActionableTabs(tb, moveDirection) ==
    IF moveDirection = "right" THEN Len(tb) ELSE PinnedCount(tb)

\* a pass that takes every actionable tab
TabsToMoveAll(kind, actionableTabsData, moveCount) == actionableTabsData

\* actionableTabsData.slice(0, 1) of a manual pull, .slice(0, moveCount) of an
\* automatic pass
TabsToMove(kind, actionableTabsData, moveCount) ==
    Slice(actionableTabsData, IF kind = "manual" THEN 1 ELSE moveCount)

\* every tab of the batch sent to the target index itself
DesiredIndexSame(targetIndex, i) == targetIndex

\* const desiredIndex = targetIndex + i
DesiredIndex(targetIndex, i) == targetIndex + i

\* moveResults.push(result) and the loop's i++
Pushed(x, result) ==
    [x EXCEPT !.moveResults = Append(x.moveResults, result),
              !.i = x.i + 1,
              !.pc = IF x.i + 1 = Len(x.tabsToMove) THEN "finish" ELSE "move"]

\* a rejected move that ends the loop with no result for the tab
CaughtAborts(x, e, desiredIndex) == [x EXCEPT !.pc = "finish"]

\* the catch block of the loop: the tab is recorded where it was
Caught(x, e, desiredIndex) ==
    Pushed(x, [tabId |-> e.tabId, oldIndex |-> e.index, newIndex |-> e.index,
               didMove |-> FALSE, desiredIndex |-> desiredIndex, rejected |-> TRUE])

\* moveResults.some(result => result.didMove)
AnyTabMoved(moveResults) == \E j \in DOMAIN moveResults : moveResults[j].didMove

\* const actionableTabsData = await getActionableTabsSorted(queueMode), and
\* the return on an empty list (a manual pull says "No actionable tabs to pull")
ExecQuery ==
    /\ ex.pc = "query"
    /\ LET actionableTabsData == GetActionableTabsSorted(tabs, ex.queueMode)
       IN  ex' = IF actionableTabsData = <<>>
                 THEN [ex EXCEPT !.pc = "done",
                                 !.notifs = IF ex.kind = "manual" THEN 1 ELSE 0]
                 ELSE [ex EXCEPT !.pc = "target",
                                 !.actionableTabsData = actionableTabsData]
    /\ UNCHANGED <<now, store, alarms, tabs, bg, failures, startups, installed,
                   edits, cronLibBlank, orch, unit, ld, page, calc>>

\* the slice and await getTargetIndexForActionableTabs(moveDirection)
ExecTarget ==
    /\ ex.pc = "target"
    /\ ex' = [ex EXCEPT
                !.pc = "move",
                !.tabsToMove = TabsToMove(ex.kind, ex.actionableTabsData, ex.moveCount),
                !.targetIndex = GetTargetIndexForActionableTabs(tabs, ex.moveDirection),
                !.i = 0]
    /\ UNCHANGED <<now, store, alarms, tabs, bg, failures, startups, installed,
                   edits, cronLibBlank, orch, unit, ld, page, calc>>

\* one iteration of the for loop of moveActionableTabs: browser.tabs.move
\* resolves with the tab's new index, or rejects into the catch block
ExecMove ==
    /\ ex.pc = "move"
    /\ LET e == ex.tabsToMove[ex.i + 1]
           desiredIndex == DesiredIndex(ex.targetIndex, ex.i)
       IN  \/ /\ tabs' = TabsMove(tabs, e.tabId, desiredIndex)
              /\ LET newIndex == IndexOf(tabs', e.tabId) - 1
                 IN  ex' = Pushed(ex, [tabId |-> e.tabId, oldIndex |-> e.index,
                                       newIndex |-> newIndex,
                                       didMove |-> e.index # newIndex,
                                       desiredIndex |-> desiredIndex,
                                       rejected |-> FALSE])
              /\ UNCHANGED failures
           \/ /\ CanFail
              /\ failures' = failures + 1
              /\ ex' = Caught(ex, e, desiredIndex)
              /\ UNCHANGED tabs
    /\ UNCHANGED <<now, store, alarms, bg, startups, installed, edits,
                   cronLibBlank, orch, unit, ld, page, calc>>

\* a manual pull that stamps lastMoveTime like an automatic pass
ExecFinishManualWrites ==
    /\ ex.pc = "finish"
    /\ store' = StorageSet(store, [lastMoveTime |-> now])
    /\ ex' = [ex EXCEPT !.pc = "done", !.notifs = ex.notifs + 1]
    /\ UNCHANGED <<now, alarms, tabs, bg, failures, startups, installed, edits,
                   cronLibBlank, orch, unit, ld, page, calc>>

\* after the loop.  A manual pull notifies whether or not the tab moved; an
\* automatic pass writes lastMoveTime and notifies when anyTabMoved and
\* showNotifications !== false; a rejected write ends it before that
ExecFinish ==
    /\ ex.pc = "finish"
    /\ \/ /\ ex.kind = "manual"
          /\ ex' = [ex EXCEPT !.pc = "done", !.notifs = ex.notifs + 1]
          /\ UNCHANGED <<store, failures>>
       \/ /\ ex.kind = "automatic"
          /\ store' = StorageSet(store, [lastMoveTime |-> now])
          /\ ex' = [ex EXCEPT !.pc = "done",
                              !.notifs = IF AnyTabMoved(ex.moveResults)
                                            /\ ex.showNotifications
                                         THEN ex.notifs + 1 ELSE ex.notifs]
          /\ UNCHANGED failures
       \/ /\ ex.kind = "automatic"
          /\ CanFail
          /\ failures' = failures + 1
          /\ ex' = [ex EXCEPT !.pc = "failed"]
          /\ UNCHANGED store
    /\ UNCHANGED <<now, alarms, tabs, bg, startups, installed, edits,
                   cronLibBlank, orch, unit, ld, page, calc>>

\* the spellings of a queue mode: the switch of getActionableTabsSorted and
\* the values of Rule.queueMode
QueueModeInputs ==
    {"oldest-first", "newest-first", "leftmost-first", "rightmost-first",
     "oldest", "newest", "leftmost", "rightmost"}

MoveDirections == {"left", "right"}

\* a strip of MaxTabs unpinned tabs behind one tab that is pinned or not;
\* marks[j] is the markedAt of the tab, 0 for a tab that is not actionable
Strip(pinned, marks) ==
    [j \in 1..(MaxTabs + 1) |->
        IF j = 1 THEN Tab(1, pinned, marks[1]) ELSE Tab(j, FALSE, marks[j])]

Strips ==
    {Strip(pinned, [j \in 1..(MaxTabs + 1) |-> f[j] * TickMs]) :
        pinned \in BOOLEAN, f \in [1..(MaxTabs + 1) -> 0..MaxTabs]}

\* moveActionableTabManually({queueMode, moveDirection}) and an automatic
\* pass with what it read from its settings
Passes ==
    {[NoExec EXCEPT !.pc = "query", !.kind = "manual", !.queueMode = q,
                    !.moveDirection = d] :
        q \in QueueModeInputs, d \in MoveDirections}
    \cup {[NoExec EXCEPT !.pc = "query", !.kind = "automatic", !.queueMode = q,
                         !.moveDirection = d, !.moveCount = n,
                         !.showNotifications = s] :
            q \in QueueModeInputs, d \in MoveDirections, n \in 1..MaxMoveCount,
            s \in BOOLEAN}

InitTabs ==
    /\ tabs \in Strips
    /\ \E x \in Passes : ex = [x EXCEPT !.before = tabs, !.pass = 1]
    /\ store = [EmptyStore EXCEPT !.lastMoveTime = Some(TickMs)]
    /\ ld = [c \in Loaders |-> GRun("idle")]
    /\ page = ClosedPage
    /\ calc = NoCalc
    /\ now = StartTime
    /\ alarms = {Alarm(ALARM_NAME, 1, [raw |-> Some(CRON_1),
                                      occ |-> 2 * MS_PER_MINUTE], StartTime)}
    /\ bg = [h \in Handlers |-> Locals("idle", "")]
    /\ failures = 0
    /\ startups = 0
    /\ installed = FALSE
    /\ edits = 0
    /\ cronLibBlank = "throws"
    /\ orch = NoOrch
    /\ unit = NoUnit

NextTabs == ExecQuery \/ ExecTarget \/ ExecMove \/ ExecFinish

SpecTabs == InitTabs /\ [][NextTabs]_vars

\* ----------------------------------------------------- claims on the pass
\* the pass has its sorted list
Queried == ex.pc \in {"target", "move", "finish", "done", "failed"}

\* the loop of the pass is over
LoopOver == ex.pc \in {"finish", "done", "failed"}

\* the actionable tabs of the strip the pass started on
ActionableCount(tb) == Cardinality({j \in DOMAIN tb : tb[j].markedAt # 0})

\* the destination base of the spec: behind the pinned tabs for direction
\* left, the number of tabs for direction right
Base(tb, moveDirection) ==
    IF moveDirection = "right"
    THEN Cardinality(DOMAIN tb)
    ELSE Cardinality({j \in DOMAIN tb : tb[j].pinned})

\* C16: with a queue mode as the rule store holds it the sorted list is in
\* that order: oldest = ascending markedAt, newest = descending markedAt,
\* leftmost = ascending index, rightmost = descending index; so its first
\* entry is the earliest-marked, latest-marked, lowest-index or highest-index
\* actionable tab.
C16_RankedByQueueMode ==
    (Queried /\ ex.queueMode \in QueueModes) =>
        \A i, j \in DOMAIN ex.actionableTabsData :
            i < j =>
                LET a == ex.actionableTabsData[i]
                    b == ex.actionableTabsData[j]
                IN  CASE ex.queueMode = "oldest" -> a.markedAt <= b.markedAt
                      [] ex.queueMode = "newest" -> a.markedAt >= b.markedAt
                      [] ex.queueMode = "leftmost" -> a.index <= b.index
                      [] ex.queueMode = "rightmost" -> a.index >= b.index

\* C17: the i-th tab of the batch is sent to base + i, base being the number
\* of pinned tabs for direction left and the number of tabs for direction
\* right; with direction left, no move rejected and only unpinned tabs in the
\* batch, the batch ends up at indices base .. base+k-1 in its sorted order.
C17_MovedToBasePlusI ==
    LET base == Base(ex.before, ex.moveDirection)
    IN  /\ \A j \in DOMAIN ex.moveResults :
              ex.moveResults[j].desiredIndex = base + (j - 1)
        /\ (/\ LoopOver
            /\ ex.moveDirection = "left"
            /\ \A j \in DOMAIN ex.moveResults :
                  /\ ~ex.moveResults[j].rejected
                  /\ ~ex.before[ex.moveResults[j].oldIndex + 1].pinned)
           => \A j \in DOMAIN ex.tabsToMove :
                  /\ tabs[base + j].id = ex.tabsToMove[j].tabId
                  /\ ex.moveResults[j].newIndex = base + (j - 1)

\* one pinned tab, direction left, moveCount 2: two tabs moved to 1 and 2
C17_TwoBehindThePinnedTab ==
    /\ ex.pc = "done" /\ ex.kind = "automatic" /\ ex.moveDirection = "left"
    /\ ex.moveCount = 2
    /\ PinnedCount(ex.before) = 1
    /\ Len(ex.moveResults) = 2
    /\ \A j \in 1..2 : ex.moveResults[j].didMove /\ ex.moveResults[j].newIndex = j

\* C18: an automatic pass requests a move for the first min(moveCount, n) of
\* the n actionable tabs in sorted order; a manual pull requests a move for
\* one tab, the first in sorted order, whatever moveCount is (none when no
\* tab is actionable).
C18_BatchSize ==
    LoopOver =>
        LET n == ActionableCount(ex.before)
            sorted == GetActionableTabsSorted(ex.before, ex.queueMode)
            k == IF ex.kind = "manual"
                 THEN (IF n > 0 THEN 1 ELSE 0)
                 ELSE (IF ex.moveCount < n THEN ex.moveCount ELSE n)
        IN  /\ Len(ex.moveResults) = k
            /\ \A j \in 1..k : ex.moveResults[j].tabId = sorted[j].tabId

\* an automatic pass with more actionable tabs than its moveCount of 2
C18_FewerThanActionable ==
    /\ ex.pc = "done" /\ ex.kind = "automatic"
    /\ ex.moveCount = 2
    /\ ActionableCount(ex.before) > 2
    /\ Len(ex.moveResults) = 2

\* C19: a rejected move does not end the batch: the tab is recorded with
\* didMove = false and newIndex = oldIndex, the tabs after it are attempted,
\* and the batch has one result per tab, in order.
C19_FailureKeepsBatch ==
    /\ ex.pc = "move" => Len(ex.moveResults) = ex.i
    /\ LoopOver =>
          /\ Len(ex.moveResults) = Len(ex.tabsToMove)
          /\ \A j \in DOMAIN ex.moveResults :
                /\ ex.moveResults[j].tabId = ex.tabsToMove[j].tabId
                /\ ex.moveResults[j].rejected =>
                      /\ ~ex.moveResults[j].didMove
                      /\ ex.moveResults[j].newIndex = ex.moveResults[j].oldIndex

\* the first move of a batch was rejected and the next tab was moved
C19_MovedAfterRejection ==
    /\ ex.pc = "done"
    /\ Len(ex.moveResults) >= 2
    /\ ex.moveResults[1].rejected
    /\ ex.moveResults[2].didMove

\* ------------------------------------------- claims on the lastMoveTime write
\* C21: an automatic pass that has requested a move writes lastMoveTime, the
\* clock reading of the write, once its loop is over, also when every move
\* of it was rejected or left its tab where it was.
C21_WritesAfterAttempt ==
    /\ [](\A h \in Handlers :
            (bg[h].run.moves >= 1 /\ bg[h].pc \notin {"p_move", "p_set", "failed"})
            => bg[h].run.writes >= 1)
    /\ [][\A h \in Handlers :
            (PassEnds(h) /\ failures' = failures)
            => /\ store'.lastMoveTime = Some(now)
               /\ bg'[h].run.writes = bg[h].run.writes + 1]_vars

\* a pass whose moves changed no position has written the current time
C21_NothingMovedYetWritten ==
    /\ bg["alarm"].pc = "s_get"
    /\ bg["alarm"].run.moves >= 1
    /\ ~bg["alarm"].anyTabMoved
    /\ store.lastMoveTime = Some(now)
    /\ now > StartTime

\* C22: a manual pull changes no scheduling state: the store (lastMoveTime
\* and everything else persisted) and the armed alarm are after each of its
\* steps what they were before, whether or not the tab moved.
C22_ManualLeavesSchedule ==
    [][ex.kind = "manual" => (store' = store /\ alarms' = alarms)]_vars

\* a manual pull that moved its tab, with lastMoveTime and the alarm as at
\* the start
C22_PulledAndUntouched ==
    /\ ex.kind = "manual" /\ ex.pc = "done"
    /\ Len(ex.moveResults) = 1 /\ ex.moveResults[1].didMove
    /\ store.lastMoveTime = Some(TickMs)
    /\ alarms # {}

\* ------------------------------------------- claims on settings changes
\* the rules of a store with what the scheduler reads of them, in list order
SchedulesOf(st) ==
    IF IsSome(st.rules)
    THEN [i \in DOMAIN Get(st.rules) |->
             <<Get(st.rules)[i].id, Get(st.rules)[i].cronSchedule>>]
    ELSE <<>>

\* C23: when a persisted change that alters the rule list or a rule's
\* cronSchedule reaches the background's change listener, the listener
\* calls the scheduler again.
C23_RescheduledOnRuleChange ==
    [][(/\ page.events # <<>>
        /\ page'.events = Tail(page.events)
        /\ SchedulesOf(Head(page.events).old) # SchedulesOf(Head(page.events).new))
       => bg'["changed"].pc = "s_get"]_vars

\* ------------------------------------------------- the execution orchestrator
\* executeAll(rules, now): the module that runs the rule list is not among the
\* sources (storage.ts declares Settings.rules, the alarm listener calls the
\* pass); it is modelled from section 4.6 of the specification.

\* the rule lists a firing pass is handed, as getSettings() returns them
ExecuteAllInputs ==
    { <<DefaultRule>>,
      <<RuleA("newest-first"), RuleB("rightmost-first")>>,
      <<RuleB("leftmost-first"), RuleA("rightmost-first")>>,
      <<RuleA("oldest-first"), Rule("c", CRON_2, "leftmost-first", NoTime, 1, "left", TRUE)>> }

\* a firing pass begins, from the alarm or from the catch-up
ExecuteAllStart ==
    /\ orch.pc = "idle"
    /\ \E trigger \in {"alarm", "catch-up"}, rules \in ExecuteAllInputs :
          orch' = [NoOrch EXCEPT !.pc = "rule", !.trigger = trigger,
                                 !.rules = rules, !.i = 1]
    /\ UNCHANGED <<now, store, alarms, tabs, bg, failures, startups, installed, edits,
                   cronLibBlank, unit, ld, page, calc, ex>>

\* a pass that runs only the rules whose own schedule has an occurrence now
ExecuteAllRuleDueOnly ==
    /\ orch.pc = "rule"
    /\ LET rule == orch.rules[orch.i]
           due == /\ CronPeriod(rule.cronSchedule) > 0
                  /\ now % (CronPeriod(rule.cronSchedule) * MS_PER_MINUTE) = 0
           last == orch.i = Len(orch.rules)
       IN \E outcome \in {"moved", "nothing", "failed"} :
            /\ outcome = "failed" => CanFail
            /\ failures' = IF outcome = "failed" THEN failures + 1 ELSE failures
            /\ orch' = [orch EXCEPT
                 !.pc = IF last THEN "persist" ELSE "rule",
                 !.i = @ + 1,
                 !.executed = IF due THEN Append(@, rule.id) ELSE @,
                 !.outcomes = IF due THEN Append(@, outcome) ELSE @]
    /\ UNCHANGED <<now, store, alarms, tabs, bg, startups, installed, edits,
                   cronLibBlank, unit, ld, page, calc, ex>>

\* the next rule of the list is handed to the rule executor; a failure of
\* the move layer is logged and the pass goes on
ExecuteAllRule ==
    /\ orch.pc = "rule"
    /\ LET rule == orch.rules[orch.i]
           last == orch.i = Len(orch.rules)
       IN \E outcome \in {"moved", "nothing", "failed"} :
            /\ outcome = "failed" => CanFail
            /\ failures' = IF outcome = "failed" THEN failures + 1 ELSE failures
            /\ orch' = [orch EXCEPT
                 !.pc = IF last THEN "persist" ELSE "rule",
                 !.i = @ + 1,
                 !.executed = Append(@, rule.id),
                 !.outcomes = Append(@, outcome)]
    /\ UNCHANGED <<now, store, alarms, tabs, bg, startups, installed, edits,
                   cronLibBlank, unit, ld, page, calc, ex>>

\* after the last rule every attempted rule gets lastMoveTime = now and the
\* whole list is persisted in one write
ExecuteAllPersist ==
    /\ orch.pc = "persist"
    /\ LET rules == [i \in DOMAIN orch.rules |->
                       IF \E j \in DOMAIN orch.executed : orch.executed[j] = orch.rules[i].id
                       THEN [orch.rules[i] EXCEPT !.lastMoveTime = now]
                       ELSE orch.rules[i]]
       IN /\ store' = StorageSet(store, [rules |-> rules])
          /\ orch' = [orch EXCEPT !.pc = "done", !.rules = rules]
    /\ UNCHANGED <<now, alarms, tabs, bg, failures, startups, installed, edits,
                   cronLibBlank, unit, ld, page, calc, ex>>

InitAll ==
    /\ now \in {StartTime, 2 * StartTime}
    /\ store \in { [EmptyStore EXCEPT !.version = Some(1), !.rules = Some(r)] :
                     r \in ExecuteAllInputs }
    /\ alarms = {}
    /\ tabs = <<>>
    /\ bg = [h \in Handlers |-> Locals("idle", "")]
    /\ failures = 0
    /\ startups = 0
    /\ installed = TRUE
    /\ edits = 0
    /\ cronLibBlank = "throws"
    /\ orch = NoOrch
    /\ unit = NoUnit
    /\ ld = [c \in Loaders |-> GRun("idle")]
    /\ page = ClosedPage
    /\ calc = NoCalc
    /\ ex = NoExec

NextAll == ExecuteAllStart \/ ExecuteAllRule \/ ExecuteAllPersist

SpecAll == InitAll /\ [][NextAll]_vars

\* ---- C24
\* the ids of a rule list, in list order
IdsOf(rules) == [i \in DOMAIN rules |-> rules[i].id]

ExecAgain ==
    /\ ex.pc = "done"
    /\ ex.kind = "automatic"
    /\ ex.pass = 1
    /\ ex' = [NoExec EXCEPT !.pc = "query", !.kind = ex.kind, !.queueMode = ex.queueMode,
                            !.moveCount = ex.moveCount,
                            !.moveDirection = ex.moveDirection,
                            !.showNotifications = ex.showNotifications,
                            !.before = tabs, !.pass = 2,
                            !.first = ex.tabsToMove]
    /\ UNCHANGED <<now, store, alarms, tabs, bg, failures, startups, installed,
                   edits, cronLibBlank, orch, unit, ld, page, calc>>

InitTwice ==
    /\ InitTabs
    /\ ex.kind = "automatic"
    /\ ex.showNotifications

NextTwice == NextTabs \/ ExecAgain

SpecTwice == InitTwice /\ [][NextTwice]_vars

\* ---- C25
\* the second pass is over and has changed nothing
SecondPassOver == ex.pass = 2 /\ ex.pc = "done"

NothingChanged ==
    /\ tabs = ex.before
    /\ ~AnyTabMoved(ex.moveResults)
    /\ ex.notifs = 0

\* C25 as stated: for every queue mode, direction and moveCount the second of
\* two automatic passes in a row changes no tab position, reports
\* anyMoved = false and emits no notification.
C25_SecondPassNoOp == SecondPassOver => NothingChanged

\* the second pass selected the tabs the first one did, in the same order
SameBatch ==
    /\ Len(ex.tabsToMove) = Len(ex.first)
    /\ \A j \in DOMAIN ex.first : ex.tabsToMove[j].tabId = ex.first[j].tabId

\* no tab of the batch is pinned
NoPinnedInBatch ==
    \A j \in DOMAIN ex.tabsToMove :
        ~ex.before[IndexOf(ex.before, ex.tabsToMove[j].tabId)].pinned

\* C25, amended: when no move was rejected, the second pass selects the same
\* tabs in the same order as the first and none of them is pinned, then with
\* direction left, or with a batch of one tab, the second pass changes no tab
\* position, reports anyMoved = false and emits no notification.
C25_SameBatchNoOp ==
    ( /\ SecondPassOver
      /\ failures = 0
      /\ SameBatch
      /\ NoPinnedInBatch
      /\ ex.moveDirection = "left" \/ Len(ex.tabsToMove) <= 1 )
    => NothingChanged

\* two passes that each took the same two tabs to the left; the first one
\* had reordered the strip
C25_SameTwoTabsTwice ==
    /\ SecondPassOver
    /\ failures = 0
    /\ SameBatch
    /\ NoPinnedInBatch
    /\ ex.moveDirection = "left"
    /\ Len(ex.tabsToMove) = 2
    /\ \E j \in DOMAIN ex.before : ex.before[j].id # j
    /\ NothingChanged

\* --------------------------- a page load while an automatic pass is writing
\* the settings page calls getSettings() while the alarm's pass has moved its
\* tabs and is about to write lastMoveTime
InitRace ==
    /\ store \in LoadInits
    /\ ld = [c \in Loaders |-> IF c = "page" THEN StartLoad(c) ELSE GRun("idle")]
    /\ bg = [h \in Handlers |-> IF h = "alarm" THEN Locals("p_set", "s_get")
                                               ELSE Locals("idle", "")]
    /\ page = ClosedPage
    /\ calc = NoCalc
    /\ ex = NoExec
    /\ now = StartTime
    /\ alarms = {}
    /\ tabs = <<>>
    /\ failures = 0
    /\ startups = 0
    /\ installed = TRUE
    /\ edits = 0
    /\ cronLibBlank = "throws"
    /\ orch = NoOrch
    /\ unit = NoUnit

\* getSettings() is called again after a call that rejected (the page is
\* opened again, or its onChanged listener runs)
LoadAgain ==
    /\ ld["page"].pc = "failed"
    /\ ld["changed"].pc = "idle"
    /\ ld' = [ld EXCEPT !["changed"] = StartLoad("changed")]
    /\ UNCHANGED <<store, page, failures, engineVars>>

NextRace ==
    \/ PassSet("alarm")
    \/ ScheduleGet("alarm")
    \/ ScheduleClearStep("alarm")
    \/ ScheduleCreateStep("alarm")
    \/ LoadAgain
    \/ \E c \in PageLoads : GetSettingsGet(c)
    \/ \E c \in PageLoads : GetSettingsV1Get(c)
    \/ \E c \in PageLoads : GetSettingsV1Migrate(c)
    \/ \E c \in PageLoads : GetSettingsV1Fix(c)
    \/ \E c \in PageLoads : GetSettingsDefaultsSet(c)
    \/ \E c \in PageLoads : GetSettingsMigrateSet(c)
    \/ \E c \in PageLoads : GetSettingsMigrateRemove(c)

SpecRace == InitRace /\ [][NextRace]_vars

\* ---- C26
\* the latest lastMoveTime the store holds, under the flat key or in a rule
PersistedLastMoveTime(st) ==
    LET flat == IF IsSome(st.lastMoveTime) THEN {Get(st.lastMoveTime)} ELSE {}
        inRules == IF IsSome(st.rules)
                   THEN {Get(st.rules)[i].lastMoveTime : i \in DOMAIN Get(st.rules)}
                   ELSE {}
        all == flat \cup inRules \cup {NoTime}
    IN  CHOOSE t \in all : \A u \in all : u <= t

\* C26: the persisted settings are read, modified and written back without
\* interference: once the pass has written lastMoveTime (at StartTime), no save that
\* began from a read made before that write leaves the store with only an
\* older lastMoveTime, or none.
C26_PassWriteSurvives ==
    bg["alarm"].run.writes > 0 => PersistedLastMoveTime(store) >= StartTime

\* ------------------------------------------ helpers and form controls, alone
\* ---- parseInt
\* a JavaScript number is [nan, n]; NaN compares false with everything
NaN == [nan |-> TRUE, n |-> 0]

\* the digits of parseInt, by value
DigitChars == <<"0", "1", "2", "3", "4", "5", "6", "7", "8", "9",
                "a", "b", "c", "d", "e", "f">>

\* parseInt(string, radix) on a string given as its characters: leading
\* white space and a sign are skipped, "0x" selects radix 16 when no radix 10
\* was passed, the longest prefix of digits is the value, and no digit at
\* all gives NaN.  radix 0 is the missing argument
ParseInt(string, radix) ==
    LET blanks == CHOOSE k \in 0..Len(string) :
                     /\ \A j \in 1..k : string[j] = " "
                     /\ k = Len(string) \/ string[k + 1] # " "
        trimmed == SubSeq(string, blanks + 1, Len(string))
        signed == trimmed # <<>> /\ trimmed[1] \in {"-", "+"}
        sign == IF trimmed # <<>> /\ trimmed[1] = "-" THEN 0 - 1 ELSE 1
        body == IF signed THEN Tail(trimmed) ELSE trimmed
        hex == radix = 0 /\ Len(body) >= 2 /\ body[1] = "0" /\ body[2] = "x"
        R == IF hex THEN 16 ELSE 10
        digits == IF hex THEN SubSeq(body, 3, Len(body)) ELSE body
        DigitOf(c) == IF \E i \in DOMAIN DigitChars : DigitChars[i] = c
                      THEN (CHOOSE i \in DOMAIN DigitChars : DigitChars[i] = c) - 1
                      ELSE 16
        RECURSIVE Digits(_, _, _)
        Digits(rest, acc, seen) ==
            IF rest = <<>> \/ DigitOf(Head(rest)) >= R
            THEN IF seen THEN [nan |-> FALSE, n |-> sign * acc] ELSE NaN
            ELSE Digits(Tail(rest), acc * R + DigitOf(Head(rest)), TRUE)
    IN  Digits(digits, 0, FALSE)

\* an awaited host call of a helper rejects
UnitReject ==
    /\ CanFail
    /\ failures' = failures + 1
    /\ unit' = [unit EXCEPT !.pc = "failed"]

\* ---- the count field of the settings forms
\* save(e), the submit listener of the form: 'Cron required', 'Count: 1-10',
\* else storage.sync.set(settings)
Save ==
    /\ unit.pc = "called"
    /\ unit.op = "save"
    /\ LET settings == [cronSchedule |-> unit.arg.cron,
                        queueMode |-> "oldest-first",
                        moveCount |-> ParseInt(unit.arg.count, 0),
                        showNotifications |-> TRUE]
           tooSmall == ~settings.moveCount.nan /\ settings.moveCount.n < 1
           tooLarge == ~settings.moveCount.nan /\ settings.moveCount.n > 10
       IN  IF settings.cronSchedule = "" \/ tooSmall \/ tooLarge
           THEN /\ unit' = [unit EXCEPT !.pc = "returned"]
                /\ UNCHANGED <<store, failures>>
           ELSE \/ /\ store' = StorageSet(store, settings)
                   /\ unit' = [unit EXCEPT !.pc = "returned",
                                           !.result = Some(settings.moveCount)]
                   /\ UNCHANGED failures
                \/ /\ UnitReject
                   /\ UNCHANGED store
    /\ UNCHANGED <<now, alarms, tabs, bg, startups, installed, edits,
                   cronLibBlank, orch, ld, page, calc, ex>>

\* the change listener of the count field: autoSave('moveCount', value) for
\* a value in 1..10, else 'Count must be between 1-10'; autoSave catches a
\* rejected write
CountInputChange ==
    /\ unit.pc = "called"
    /\ unit.op = "countChange"
    /\ LET value == ParseInt(unit.arg.count, 0)
       IN  IF ~value.nan /\ value.n >= 1 /\ value.n <= 10
           THEN \/ /\ store' = StorageSet(store, [moveCount |-> value])
                   /\ unit' = [unit EXCEPT !.pc = "returned", !.result = Some(value)]
                   /\ UNCHANGED failures
                \/ /\ UnitReject
                   /\ UNCHANGED store
           ELSE /\ unit' = [unit EXCEPT !.pc = "returned"]
                /\ UNCHANGED <<store, failures>>
    /\ UNCHANGED <<now, alarms, tabs, bg, startups, installed, edits,
                   cronLibBlank, orch, ld, page, calc, ex>>

\* onChange of "Tabs per cycle" of rule 0: updateRule(index, {moveCount:
\* value}) for a value in 1..10, and the save that follows the debounce
TabsPerCycleChange ==
    /\ unit.pc = "called"
    /\ unit.op = "tabsPerCycle"
    /\ LET value == ParseInt(unit.arg.count, 10)
           rules == Get(store.rules)
       IN  IF ~value.nan /\ value.n >= 1 /\ value.n <= 10
           THEN \/ /\ store' = StorageSet(store,
                         [rules |-> [rules EXCEPT ![1].moveCount = value]])
                   /\ unit' = [unit EXCEPT !.pc = "returned", !.result = Some(value)]
                   /\ UNCHANGED failures
                \/ /\ UnitReject
                   /\ UNCHANGED store
           ELSE /\ unit' = [unit EXCEPT !.pc = "returned"]
                /\ UNCHANGED <<store, failures>>
    /\ UNCHANGED <<now, alarms, tabs, bg, startups, installed, edits,
                   cronLibBlank, orch, ld, page, calc, ex>>

\* ---- getMostRecentLastMoveTime
\* a scan that stops at the first rule that has fired
GetMostRecentLastMoveTimeFirst(rules) ==
    IF \E i \in DOMAIN rules : rules[i].lastMoveTime # NoTime
    THEN rules[CHOOSE i \in DOMAIN rules :
                  /\ rules[i].lastMoveTime # NoTime
                  /\ \A j \in 1..(i - 1) : rules[j].lastMoveTime = NoTime].lastMoveTime
    ELSE NoTime

\* the for loop over rules: a truthy lastMoveTime replaces mostRecentLastMoveTime
\* when that is null or smaller
GetMostRecentLastMoveTime(rules) ==
    LET RECURSIVE Loop(_, _)
        Loop(i, mostRecentLastMoveTime) ==
            IF i > Len(rules) THEN mostRecentLastMoveTime
            ELSE IF /\ rules[i].lastMoveTime # NoTime
                    /\ \/ mostRecentLastMoveTime = NoTime
                       \/ rules[i].lastMoveTime > mostRecentLastMoveTime
                 THEN Loop(i + 1, rules[i].lastMoveTime)
                 ELSE Loop(i + 1, mostRecentLastMoveTime)
    IN  Loop(1, NoTime)

\* the status panel asks for the most recent move
MostRecentCall ==
    /\ unit.pc = "called"
    /\ unit.op = "mostRecent"
    /\ unit' = [unit EXCEPT !.pc = "returned",
                            !.result = Some(GetMostRecentLastMoveTime(unit.arg))]
    /\ UNCHANGED <<now, store, alarms, tabs, bg, failures, startups, installed, edits,
                   cronLibBlank, orch, ld, page, calc, ex>>

\* ---- action.onClicked: toggleActionableState(tab)
\* const isCurrentlyActionable = await sessions.getTabValue(tab.id, 'actionable')
ToggleGet ==
    /\ unit.pc = "called"
    /\ unit.op = "toggle"
    /\ \/ /\ unit' = [unit EXCEPT
                 !.pc = "t_write",
                 !.result = Some(tabs[IndexOf(tabs, unit.arg)].markedAt # 0)]
          /\ UNCHANGED failures
       \/ UnitReject
    /\ UNCHANGED <<now, store, alarms, tabs, bg, startups, installed, edits,
                   cronLibBlank, orch, ld, page, calc, ex>>

\* a click that marks the tab whatever it was
ToggleWriteAlwaysMarks ==
    /\ unit.pc = "t_write"
    /\ tabs' = [tabs EXCEPT ![IndexOf(tabs, unit.arg)].markedAt = now]
    /\ unit' = [unit EXCEPT !.pc = "returned"]
    /\ UNCHANGED <<now, store, alarms, bg, failures, startups, installed, edits,
                   cronLibBlank, orch, ld, page, calc, ex>>

\* removeTabValue, or setTabValue with {markedAt: Date.now()}, and the icon
ToggleWrite ==
    /\ unit.pc = "t_write"
    /\ \/ /\ tabs' = [tabs EXCEPT ![IndexOf(tabs, unit.arg)].markedAt =
                         IF Get(unit.result) THEN 0 ELSE now]
          /\ unit' = [unit EXCEPT !.pc = "returned"]
          /\ UNCHANGED failures
       \/ /\ UnitReject
          /\ UNCHANGED tabs
    /\ UNCHANGED <<now, store, alarms, bg, startups, installed, edits,
                   cronLibBlank, orch, ld, page, calc, ex>>

\* the icon is clicked again on the same tab, after the first click's
\* listener has returned
ClickAgain ==
    /\ unit.op = "toggle"
    /\ unit.pc = "returned"
    /\ unit.calls = 1
    /\ unit' = [unit EXCEPT !.pc = "called", !.calls = 2, !.result = None]
    /\ UNCHANGED <<now, store, alarms, tabs, bg, failures, startups, installed, edits,
                   cronLibBlank, orch, ld, page, calc, ex>>

\* ---- clearAllActionableTabs
\* const allTabs = await browser.tabs.query({currentWindow: true}), the
\* filter on t.id and clearedCount = 0
ClearAllQuery ==
    /\ unit.pc = "called"
    /\ unit.op = "clear"
    /\ \/ /\ unit' = [unit EXCEPT !.pc = "c_loop",
                                  !.arg = [j \in DOMAIN tabs |-> tabs[j].id],
                                  !.result = Some(0)]
          /\ UNCHANGED failures
       \/ UnitReject
    /\ UNCHANGED <<now, store, alarms, tabs, bg, startups, installed, edits,
                   cronLibBlank, orch, ld, page, calc, ex>>

\* a loop that a rejected sessions call ends
ClearAllTabStopsOnError ==
    /\ unit.pc = "c_loop"
    /\ LET tabId == Head(unit.arg)
           at == IndexOf(tabs, tabId)
           next == [unit EXCEPT !.arg = Tail(@),
                                !.pc = IF Tail(unit.arg) = <<>> THEN "returned" ELSE "c_loop"]
       IN  \/ /\ tabs' = [tabs EXCEPT ![at].markedAt = 0]
              /\ unit' = IF tabs[at].markedAt # 0
                         THEN [next EXCEPT !.result = Some(Get(@) + 1)]
                         ELSE next
              /\ UNCHANGED failures
           \/ /\ CanFail
              /\ failures' = failures + 1
              /\ unit' = [unit EXCEPT !.pc = "returned"]
              /\ UNCHANGED tabs
    /\ UNCHANGED <<now, store, alarms, bg, startups, installed, edits,
                   cronLibBlank, orch, ld, page, calc, ex>>

\* one iteration of the for loop: getTabValue, and for a marked tab
\* removeTabValue and clearedCount++; a rejected call of either is caught and
\* the loop goes on.  After the last tab the count is returned
ClearAllTab ==
    /\ unit.pc = "c_loop"
    /\ LET tabId == Head(unit.arg)
           at == IndexOf(tabs, tabId)
           next == [unit EXCEPT !.arg = Tail(@),
                                !.pc = IF Tail(unit.arg) = <<>> THEN "returned" ELSE "c_loop"]
       IN  \/ /\ tabs' = [tabs EXCEPT ![at].markedAt = 0]
              /\ unit' = IF tabs[at].markedAt # 0
                         THEN [next EXCEPT !.result = Some(Get(@) + 1)]
                         ELSE next
              /\ UNCHANGED failures
           \/ /\ CanFail
              /\ failures' = failures + 1
              /\ unit' = next
              /\ UNCHANGED tabs
    /\ UNCHANGED <<now, store, alarms, bg, startups, installed, edits,
                   cronLibBlank, orch, ld, page, calc, ex>>

\* ---- getNextExecutingRulesWithParser(rules, CronExpressionParser)
\* let nextExecutionTime = null; const nextRuleIndices = []
NoNextRules == [nextExecutionTime |-> NoTime, nextRuleIndices |-> <<>>]

\* an iteration that keeps the indices it has when it finds an earlier time
NextRulesIterationNoClear(rule, i, loc, t) ==
    IF IsBlank(rule.cronSchedule) \/ CronThrows(rule.cronSchedule)
    THEN loc
    ELSE LET executionTime == NextOccurrence(rule.cronSchedule, t)
         IN  IF loc.nextExecutionTime = NoTime
             THEN [nextExecutionTime |-> executionTime,
                   nextRuleIndices |-> Append(loc.nextRuleIndices, i)]
             ELSE IF executionTime = loc.nextExecutionTime
                  THEN [loc EXCEPT !.nextRuleIndices = Append(@, i)]
                  ELSE IF executionTime < loc.nextExecutionTime
                       THEN [nextExecutionTime |-> executionTime,
                             nextRuleIndices |-> Append(loc.nextRuleIndices, i)]
                       ELSE loc

\* one iteration of the for loop, for rules[i] (i counts from 0) with
\* `new Date()` = t: the locals afterwards.  A blank schedule is skipped, a
\* schedule the parser throws on is swallowed by the empty catch.
NextRulesIteration(rule, i, loc, t) ==
    IF IsBlank(rule.cronSchedule)
    THEN loc
    ELSE IF CronThrows(rule.cronSchedule)
         THEN loc
         ELSE LET executionTime == NextOccurrence(rule.cronSchedule, t)
              IN  IF loc.nextExecutionTime = NoTime
                  THEN [nextExecutionTime |-> executionTime,
                        nextRuleIndices |-> Append(loc.nextRuleIndices, i)]
                  ELSE IF executionTime = loc.nextExecutionTime
                       THEN [loc EXCEPT !.nextRuleIndices = Append(@, i)]
                       ELSE IF executionTime < loc.nextExecutionTime
                            THEN [nextExecutionTime |-> executionTime,
                                  nextRuleIndices |-> <<i>>]
                            ELSE loc

\* the loop, one iteration a step; unit.before keeps the instant each
\* iteration read, and the clock may have moved on between two iterations
GetNextExecutingRulesStep ==
    /\ unit.pc = "called"
    /\ unit.op = "nextRules"
    /\ LET i == Len(Get(unit.before))
       IN  IF i = Len(unit.arg)
           THEN /\ unit' = [unit EXCEPT !.pc = "returned"]
                /\ UNCHANGED now
           ELSE \E t \in {now, now + TickMs} :
                  /\ t <= MaxTime
                  /\ now' = t
                  /\ unit' = [unit EXCEPT
                         !.before = Some(Append(Get(unit.before), t)),
                         !.result = Some(NextRulesIteration(unit.arg[i + 1], i,
                                                            Get(unit.result), t))]
    /\ UNCHANGED <<store, alarms, tabs, bg, failures, startups, installed, edits,
                   cronLibBlank, orch, ld, page, calc, ex>>

\* ---- the calls
\* what a count field may hold, character by character
CountFieldInputs ==
    { <<>>, <<"a", "b", "c">>, <<"0">>, <<"1">>, <<"5">>, <<"1", "0">>, <<"1", "1">>,
      <<"2", ".", "5">>, <<"-", "3">>, <<"5", "a">>, <<" ", "7">>, <<"0", "x", "a">>,
      <<"0", "x", "b">>, <<"1", "e", "1">> }

UnitCalls ==
    {[NoUnit EXCEPT !.pc = "called", !.op = "save", !.calls = 1,
                    !.arg = [count |-> c, cron |-> s]] :
        c \in CountFieldInputs, s \in {"", CRON_1}}
    \cup {[NoUnit EXCEPT !.pc = "called", !.op = o, !.calls = 1, !.arg = [count |-> c]] :
            c \in CountFieldInputs, o \in {"countChange", "tabsPerCycle"}}
    \cup {[NoUnit EXCEPT !.pc = "called", !.op = "mostRecent", !.calls = 1,
                         !.arg = [i \in 1..n |->
                                    [DefaultRule EXCEPT !.lastMoveTime = f[i]]]] :
            n \in 0..MaxRules + 1,
            f \in [1..MaxRules + 1 -> {NoTime, TickMs, StartTime, MaxTime}]}
    \cup {[NoUnit EXCEPT !.pc = "called", !.op = "toggle", !.calls = 1, !.arg = id] :
            id \in 1..2}
    \cup {[NoUnit EXCEPT !.pc = "called", !.op = "clear", !.calls = 1]}
    \cup {[NoUnit EXCEPT !.pc = "called", !.op = "nextRules", !.calls = 1,
                         !.arg = [i \in 1..n |->
                                    [DefaultRule EXCEPT !.cronSchedule = f[i]]],
                         !.result = Some(NoNextRules), !.before = Some(<<>>)] :
            n \in 0..MaxRules,
            f \in [1..MaxRules -> {CRON_1, CRON_2, CRON_30, "", CRON_BLANK, CRON_BAD}]}

InitUnit ==
    /\ tabs \in {<<Tab(1, FALSE, m1), Tab(2, p, m2), Tab(3, FALSE, m3)>> :
                   m1 \in {0, TickMs}, m2 \in {0, TickMs}, m3 \in {0, TickMs},
                   p \in BOOLEAN}
    /\ \E c \in UnitCalls :
          unit = CASE c.op = "toggle" -> [c EXCEPT !.before = Some(tabs[c.arg].markedAt)]
                   [] c.op = "clear" -> [c EXCEPT !.before = Some(tabs)]
                   [] OTHER -> c
    /\ store = [EmptyStore EXCEPT
                  !.version = Some(1),
                  !.rules = Some(<<[DefaultRule EXCEPT
                                      !.moveCount = [nan |-> FALSE, n |-> 1]]>>)]
    /\ now = StartTime
    /\ alarms = {}
    /\ bg = [h \in Handlers |-> Locals("idle", "")]
    /\ failures = 0
    /\ startups = 0
    /\ installed = TRUE
    /\ edits = 0
    /\ cronLibBlank = "throws"
    /\ orch = NoOrch
    /\ ld = [c \in Loaders |-> GRun("idle")]
    /\ page = ClosedPage
    /\ calc = NoCalc
    /\ ex = NoExec

NextUnit ==
    \/ Save
    \/ CountInputChange
    \/ TabsPerCycleChange
    \/ MostRecentCall
    \/ ToggleGet
    \/ ToggleWrite
    \/ ClickAgain
    \/ ClearAllQuery
    \/ ClearAllTab
    \/ GetNextExecutingRulesStep

SpecUnit == InitUnit /\ [][NextUnit]_vars

\* ---- C27
\* every moveCount the store holds, under the flat key or in a rule
PersistedMoveCounts(st) ==
    (IF IsSome(st.moveCount) THEN {Get(st.moveCount)} ELSE {})
    \cup (IF IsSome(st.rules)
          THEN {Get(st.rules)[i].moveCount : i \in DOMAIN Get(st.rules)}
          ELSE {})

\* C27: every moveCount value that the settings UI persists is an integer in
\* 1..10: whatever the count field holds, empty and non-numeric input
\* included, either nothing is saved or the saved moveCount lies in 1..10.
C27_MoveCountInRange ==
    \A v \in PersistedMoveCounts(store) : ~v.nan /\ v.n \in 1..10

\* ---- C28
\* s without its element i
Without(s, i) == SubSeq(s, 1, i - 1) \o SubSeq(s, i + 1, Len(s))

\* C28: rule list order is preserved by every operation of the page except
\* an explicit reorder: whenever an operation changes the page's rule list,
\* a longer list is the old one with the new rule appended at the end
\* (addRule), a shorter list is the old one without one rule, the others in
\* their order (removeRule), and a list of the same length either holds the
\* same rules at the same positions (updateRule) or is the old one with two
\* neighbours exchanged and nothing else moved (moveRule); addRule lengthens.
C28_OrderPreserved ==
    [][ (page.loaded /\ ld' = ld /\ page'.rules # page.rules) =>
          LET old == page.rules
              new == page'.rules
          IN  /\ page'.added # page.added => Len(new) = Len(old) + 1
              /\ Len(new) > Len(old) =>
                    /\ Len(new) = Len(old) + 1
                    /\ SubSeq(new, 1, Len(old)) = old
                    /\ new[Len(new)].id \notin {old[i].id : i \in DOMAIN old}
              /\ Len(new) < Len(old) => \E i \in DOMAIN old : new = Without(old, i)
              /\ Len(new) = Len(old) =>
                    \/ IdsOf(new) = IdsOf(old)
                    \/ \E i \in 1..(Len(old) - 1) :
                          new = [old EXCEPT ![i] = old[i + 1], ![i + 1] = old[i]]
    ]_vars

\* the page holds three rules, the added one in the middle: a rule was
\* appended behind "b", "a" and then moved up
C28_AddedThenMovedUp ==
    /\ page.loaded
    /\ page.added = 1
    /\ Len(page.rules) = 3
    /\ page.rules[1].id = "b"
    /\ page.rules[3].id = "a"

\* ---- C29
\* C29: getMostRecentLastMoveTime(rules) returns the maximum of the non-null
\* lastMoveTime values over all rules, and null exactly when every rule's
\* lastMoveTime is null.
C29_MostRecentIsMax ==
    (unit.op = "mostRecent" /\ unit.pc = "returned") =>
        LET times == {unit.arg[i].lastMoveTime : i \in DOMAIN unit.arg} \ {NoTime}
            r == Get(unit.result)
        IN  /\ (r = NoTime) <=> (times = {})
            /\ r # NoTime => r \in times /\ \A t \in times : t <= r

\* three rules, the latest move is the second rule's and the third never fired
C29_LatestInTheMiddle ==
    /\ unit.op = "mostRecent"
    /\ unit.pc = "returned"
    /\ Len(unit.arg) = 3
    /\ unit.arg[1].lastMoveTime = StartTime
    /\ unit.arg[2].lastMoveTime = MaxTime
    /\ unit.arg[3].lastMoveTime = NoTime
    /\ unit.result = Some(MaxTime)

\* ---- C30
\* C30: clicking the extension icon toggles the tab's actionable state: after
\* one click an unmarked tab is actionable with markedAt the click time and a
\* marked tab is unmarked, and after two successive clicks the tab is marked
\* exactly if it was marked at first.
C30_ClickToggles ==
    (unit.op = "toggle" /\ unit.pc = "returned") =>
        LET t == tabs[IndexOf(tabs, unit.arg)]
            was == Get(unit.before)
        IN  IF unit.calls = 1
            THEN /\ was = 0 => t.markedAt = now
                 /\ was # 0 => t.markedAt = 0
            ELSE (t.markedAt # 0) <=> (was # 0)

\* two clicks on a tab marked earlier: it is marked again, at the time of
\* the second click
C30_MarkedAgainAfterTwoClicks ==
    /\ unit.op = "toggle"
    /\ unit.pc = "returned"
    /\ unit.calls = 2
    /\ unit.before = Some(TickMs)
    /\ tabs[IndexOf(tabs, unit.arg)].markedAt = now

\* ---- C31
\* the tabs of a strip that carry the actionable mark
Marked(tb) == {tb[j].id : j \in {k \in DOMAIN tb : tb[k].markedAt # 0}}

\* C31: clearAllActionableTabs returns the number of tabs of the window whose
\* mark it removed; when no removal fails no tab of the window is actionable
\* afterwards and the count is the number of tabs that were actionable
\* before; a failure on one tab leaves at most that tab marked, the others
\* are cleared.
C31_ClearsAndCounts ==
    (unit.op = "clear" /\ unit.pc = "returned") =>
        LET was == Marked(Get(unit.before))
            is == Marked(tabs)
        IN  /\ Get(unit.result) = Cardinality(was \ is)
            /\ is \subseteq was
            /\ failures = 0 => is = {} /\ Get(unit.result) = Cardinality(was)
            /\ Cardinality(is) <= failures

\* three marked tabs, the call on the first was rejected and the two behind
\* it were cleared
C31_ClearedBehindTheFailure ==
    /\ unit.op = "clear"
    /\ unit.pc = "returned"
    /\ Marked(Get(unit.before)) = {1, 2, 3}
    /\ Marked(tabs) = {1}
    /\ unit.result = Some(2)

\* ---- C32
\* no debounce timer is armed, no write is in flight, no change event is
\* undelivered and no load is under way
PageQuiet ==
    /\ page.loaded
    /\ ~page.debounceTimeout
    /\ page.set = "none"
    /\ page.changes = 0
    /\ \A c \in PageLoads : ld[c].pc \in {"idle", "returned", "failed"}

\* C32: every rule edit accepted by autoSaveRules is eventually persisted when
\* storage writes succeed: once the timers and writes are done the persisted
\* rule list is the page's rule list, and only then the status is 'saved'.
C32_EditsPersisted ==
    (PageQuiet /\ failures = 0 /\ page.saveStatus # "idle") =>
        /\ store.rules = Some(page.rules)
        /\ page.saveStatus = "saved"

\* ---- C33
\* the legacy flat keys the store holds
LegacyPresent(st) == {k \in LegacyKeys : IsSome(st[k])}

\* C33: once the store holds a version-1 envelope and no legacy flat key,
\* no step of a load, a pass or a save puts a legacy flat key into the store again.
C33_NoLegacyKeyReturns ==
    [][(store.version = Some(1) /\ LegacyPresent(store) = {})
          => LegacyPresent(store') = {}]_vars

\* the same for a migration interrupted after its write of the envelope: a
\* load() run after the failed one leaves no legacy flat key under the envelope
C33_InterruptedMigrationCleaned ==
    (/\ ld["page"].pc = "failed" /\ FromLegacy(ld["page"])
     /\ ld["changed"].pc = "returned" /\ bg["alarm"].run.writes = 0)
        => LegacyPresent(store) = {}

\* ---- a restart between two occurrences: the last pass wrote lastMoveTime at
\* StartTime and scheduleNextMove armed the alarm for the next occurrence
InitRestart ==
    /\ now = StartTime
    /\ store = [EmptyStore EXCEPT !.cronSchedule = Some(CRON_1),
                                  !.lastMoveTime = Some(StartTime)]
    /\ alarms = ScheduleCreate({}, 1, [raw |-> Some(CRON_1),
                                       occ |-> NextOccurrence(CRON_1, StartTime)], StartTime)
    /\ tabs \in TabInits
    /\ bg = [h \in Handlers |-> Locals("idle", "")]
    /\ failures = 0
    /\ startups = 0
    /\ installed = TRUE
    /\ edits = 0
    /\ cronLibBlank = "throws"
    /\ orch = NoOrch
    /\ unit = NoUnit
    /\ ld = [c \in Loaders |-> GRun("idle")]
    /\ page = ClosedPage
    /\ calc = NoCalc
    /\ ex = NoExec

NextRestart ==
    \/ Tick
    \/ OnStartup
    \/ CatchUpGet
    \/ CatchUpSet
    \/ OnAlarm
    \/ \E h \in Handlers : ScheduleGet(h)
    \/ \E h \in Handlers : ScheduleClearStep(h)
    \/ \E h \in Handlers : ScheduleCreateStep(h)
    \/ \E h \in Handlers : PassGet(h)
    \/ \E h \in Handlers : PassQuery(h)
    \/ \E h \in Handlers : PassTarget(h)
    \/ \E h \in Handlers : PassMove(h)
    \/ \E h \in Handlers : PassSet(h)

SpecRestart == InitRestart /\ [][NextRestart]_vars

\* ---- C34
\* the occurrences of the every-minute schedule that have elapsed since the
\* pass that wrote lastMoveTime at StartTime
Elapsed == (now - StartTime) \div MS_PER_MINUTE

\* the pass of listener l ran to its end: it returned early on an empty
\* list, or it reached its write of lastMoveTime and the write resolved
PassReturned(l) == l.run.empty \/ l.run.writes = 1

\* the timer fired and its pass ran for every elapsed occurrence, and the
\* next occurrence has not come
NothingMissed ==
    /\ ~Running("alarm")
    /\ bg["alarm"].run.passes = Elapsed
    /\ Elapsed = 1 => PassReturned(bg["alarm"])

\* the startup check reads the store and decides
StartupChecks ==
    /\ bg["startup"].pc = "cu_get"
    /\ bg'["startup"].pc \notin {"cu_get", "failed"}

\* the startup check found 0 missed occurrences and runs no catch-up pass
NoCatchUp(l) == l.missed = 0 /\ l.pc = "s_get" /\ l.run.passes = 0

\* C34 as stated: when the timer's pass ran for every elapsed occurrence, also
\* when it found no actionable tab, and the restart comes before the next
\* occurrence, the startup check finds 0 missed occurrences and runs no pass.
C34_NoCatchUpAfterEveryPass ==
    [][(StartupChecks /\ NothingMissed) => NoCatchUp(bg'["startup"])]_vars

\* C34 amended: the same when none of those passes was empty.
C34_NoCatchUpAfterMovingPass ==
    [][(StartupChecks /\ NothingMissed /\ ~bg["alarm"].run.empty)
          => NoCatchUp(bg'["startup"])]_vars

\* the restart came after the alarm's pass had moved a tab, and no catch-up ran
C34_RestartAfterMovingPass ==
    /\ bg["alarm"].pc = "done" /\ bg["alarm"].run.moves >= 1
    /\ bg["startup"].pc = "done" /\ bg["startup"].missed = 0
    /\ bg["startup"].run.passes = 0


\* ---- C35
\* C35: once the user has confirmed RESET and the timers and writes are done,
\* the store holds the default envelope with exactly one default rule; an edit
\* that waited in the debounce window when RESET was pressed does not
\* overwrite it.
C35_ResetStands ==
    (PageQuiet /\ page.reset) =>
        /\ store.version = Some(RULE_DEFAULTS.version)
        /\ store.rules = Some(RULE_DEFAULTS.rules)


\* ---- C36
\* the positions (from 1) of the rules with a non-empty schedule the parser accepts
Parseable(rules) ==
    {i \in DOMAIN rules : ~IsBlank(rules[i].cronSchedule) /\ ~CronThrows(rules[i].cronSchedule)}

\* the next occurrence of rules[i], taken at the instant its iteration read
NextOf(rules, at, i) == NextOccurrence(rules[i].cronSchedule, at[i])

\* C36: getNextExecutingRulesWithParser returns exactly the indices of the
\* rules whose next occurrence is the earliest among the rules with a
\* non-empty, parseable schedule, in ascending order; a rule with an empty,
\* whitespace-only or unparseable schedule is never returned, and the result
\* is empty exactly when no rule has a parseable non-empty schedule.
C36_EarliestRules ==
    (unit.op = "nextRules" /\ unit.pc = "returned") =>
        LET rules == unit.arg
            at == Get(unit.before)
            r == Get(unit.result).nextRuleIndices
            earliest == {i \in Parseable(rules) :
                           \A j \in Parseable(rules) :
                               NextOf(rules, at, i) <= NextOf(rules, at, j)}
        IN  /\ {r[k] + 1 : k \in DOMAIN r} = earliest
            /\ \A k \in 1..(Len(r) - 1) : r[k] < r[k + 1]
            /\ \A k \in DOMAIN r : r[k] + 1 \in Parseable(rules)
            /\ r = <<>> <=> Parseable(rules) = {}

\* a later rule came earlier than the two before it, beside a blank-free list
\* with an unparseable schedule in front
C36_LaterRuleIsEarlier ==
    /\ unit.op = "nextRules" /\ unit.pc = "returned"
    /\ Len(unit.arg) = 3
    /\ unit.arg[1].cronSchedule = CRON_30
    /\ unit.arg[2].cronSchedule = CRON_BLANK
    /\ unit.arg[3].cronSchedule = CRON_1
    /\ Get(unit.result).nextRuleIndices = <<2>>

\* two rules tie for the earliest occurrence
C36_TwoRulesTie ==
    /\ unit.op = "nextRules" /\ unit.pc = "returned"
    /\ Get(unit.result).nextRuleIndices = <<0, 2>>
    /\ unit.arg[2].cronSchedule = CRON_BAD


\* ---- C37
\* the page's scheduling: a timer that is armed fires, a pending promise
\* settles, a change event is delivered and an awaited storage call answers
PageRuns ==
    \/ DebounceFire
    \/ SetSettled
    \/ PageOnChanged
    \/ \E c \in PageLoads : GetSettingsGet(c)
    \/ \E c \in PageLoads : GetSettingsV1Get(c)
    \/ \E c \in PageLoads : GetSettingsV1Migrate(c)
    \/ \E c \in PageLoads : GetSettingsV1Fix(c)
    \/ \E c \in PageLoads : GetSettingsDefaultsSet(c)
    \/ \E c \in PageLoads : GetSettingsMigrateSet(c)
    \/ \E c \in PageLoads : GetSettingsMigrateRemove(c)

SpecPageLive == SpecPage /\ WF_vars(PageRuns)

\* getSettings() would write to a store like st
WouldWrite(st) ==
    \/ st.version # Some(1)
    \/ LET settings == StorageGet(st, RULE_DEFAULTS)
       IN  NeedsRuleMigration(settings.rules) \/ settings.rules = <<>>

\* nothing of the page is pending: no timer, no write in flight, no
\* undelivered change, no getSettings() under way
PageAtRest ==
    /\ ~page.debounceTimeout
    /\ page.set = "none"
    /\ page.changes = 0
    /\ \A c \in PageLoads : ld[c].pc \in {"idle", "returned", "failed"}

\* C37: the chain store changed -> listener calls getSettings() -> getSettings()
\* writes a migrated value -> store changed stops: a call of the listener
\* writes at most once, what it writes is a value getSettings() would not
\* write again, and the page comes to rest.
C37_ListenerChainStops ==
    /\ [](ld["changed"].writes <= 1)
    /\ [][ld'["changed"].writes > ld["changed"].writes => ~WouldWrite(store')]_vars
    /\ <>[]PageAtRest

\* the listener's getSettings() wrote the migrated queue mode of an added
\* rule, was called again for that write and returned without writing
C37_SecondCallWroteNothing ==
    /\ PageAtRest
    /\ page.added >= 1
    /\ ld["changed"].pc = "returned" /\ ld["changed"].writes = 0
    /\ \E k \in DOMAIN page.events :
          /\ page.events[1].old = EmptyStore
          /\ page.events[k].old.version = Some(1)
          /\ IsSome(page.events[k].old.rules)
          /\ NeedsRuleMigration(Get(page.events[k].old.rules))
          /\ page.events[k].new.rules = Some(MigratedRules(Get(page.events[k].old.rules)))

====
